---- MODULE Spec2Model ----
(***************************************************************************)
(* Model of the graph visualiser: the Graph class (vertex map, edge list,  *)
(* directedness flag) and the step-emitting algorithm generators of        *)
(* src/src/utils/algorithms.ts, driven to exhaustion by App.runAlgorithm.  *)
(*                                                                         *)
(* Identifiers are strings, modelled as sequences of one-character         *)
(* strings so that trim() and toUpperCase() are computed, not assumed.     *)
(* A JavaScript Map / Set is modelled as a sequence in insertion order.    *)
(* Display coordinates (x, y) of a vertex and the message text of a step   *)
(* are not modelled: no algorithm reads them.  The one exception is the    *)
(* partition step of checkBipartite, whose two variants differ only in     *)
(* their message: its verdict is kept as the field message.                *)
(***************************************************************************)
EXTENDS Integers, Sequences, FiniteSets, TLC

VARIABLES
  nodes,     \* Graph.nodes : Map<string, Node>, as the sequence of its values in insertion order
  edges,     \* Graph.edges : Edge[]
  directed,  \* Graph.directed
  ret,       \* the last Graph method call: its name (op), its return value (val) and how
             \* many stored edges it removed or rewrote (touched)
  gen,       \* the frame of the generator being driven: its locals and its suspension point
  steps,     \* the steps collected so far by runAlgorithm's for..of loop
  prev,      \* the materialized step list of the previous run on this graph
  app        \* App's playback state: algorithmSteps, currentStepIndex, isPlaying and
             \* the interval held in playIntervalRef

vars == <<nodes, edges, directed, ret, gen, steps, prev, app>>

NULL == [null |-> TRUE]
VOID == "void"

\* App.tsx 30-32: no trace, no current step, not playing, no interval
AppIdle ==
  [algorithmSteps |-> <<>>, currentStepIndex |-> -1, isPlaying |-> FALSE,
   playInterval |-> NULL]

\* ---------------------------------------------------------------------
\* Bounds of the model
\* ---------------------------------------------------------------------
MaxGraphEdges == 2     \* longest edge list built by the Graph operations
MaxWeight == 2         \* largest edge weight an input may carry

\* ---------------------------------------------------------------------
\* Strings
\* ---------------------------------------------------------------------
upperChar(c) ==
  CASE c = "a" -> "A"
    [] c = "b" -> "B"
    [] c = "c" -> "C"
    [] c = "d" -> "D"
    [] OTHER -> c

toUpperCase(s) == [i \in 1..Len(s) |-> upperChar(s[i])]

RECURSIVE trimStart(_)
trimStart(s) == IF s # <<>> /\ Head(s) = " " THEN trimStart(Tail(s)) ELSE s

RECURSIVE trimEnd(_)
trimEnd(s) == IF s # <<>> /\ s[Len(s)] = " " THEN trimEnd(SubSeq(s, 1, Len(s) - 1)) ELSE s

trim(s) == trimEnd(trimStart(s))

normalizeId(id) == toUpperCase(trim(id))

\* Raw identifiers a caller passes when it creates vertices and edges ...
AddIds == { <<"a">>, <<"A">>, <<" ", "b">> }

\* ... and when it deletes, renames or updates them.
RawIds == AddIds \cup { <<"C", " ">> }

\* The Graph operations are explored on graphs holding at most as many
\* vertices as there are distinct identifiers to create.
NodeCap == Cardinality({ toUpperCase(trim(id)) : id \in AddIds })

GraphWeights == {1, 2}

\* ---------------------------------------------------------------------
\* Sequence helpers
\* ---------------------------------------------------------------------
Range(s) == { s[i] : i \in 1..Len(s) }

IdsOf(ns) == [i \in 1..Len(ns) |-> ns[i].id]

NodeIds == IdsOf(nodes)

hasNode(ns, id) == \E i \in 1..Len(ns) : ns[i].id = id

mkNode(id) == [id |-> id, label |-> id]

\* findIndex: the first index whose edge joins the ordered pair, 0 when none (JS: -1)
findEdgeIndex(es, f, t) ==
  IF \E i \in 1..Len(es) : es[i].from = f /\ es[i].to = t
  THEN CHOOSE i \in 1..Len(es) :
         /\ es[i].from = f /\ es[i].to = t
         /\ \A j \in 1..(i - 1) : ~(es[j].from = f /\ es[j].to = t)
  ELSE 0

\* ---------------------------------------------------------------------
\* Graph methods
\* ---------------------------------------------------------------------
NoRun == UNCHANGED <<gen, steps, prev, app>>

Returned(op, val, touched) == [op |-> op, val |-> val, touched |-> touched]

addNodeToNoCheck(ns, id) == Append(ns, mkNode(normalizeId(id)))

addNodeTo(ns, id) ==
  LET n == normalizeId(id) IN
  IF hasNode(ns, n) THEN ns ELSE Append(ns, mkNode(n))

AddNode(id) ==
  LET n == normalizeId(id) IN
  /\ hasNode(nodes, n) \/ Len(nodes) < NodeCap
  /\ nodes' = addNodeTo(nodes, id)
  /\ ret' = Returned("addNode", IF hasNode(nodes, n) THEN NULL ELSE mkNode(n), 0)
  /\ UNCHANGED <<edges, directed>>
  /\ NoRun

cascadeEdgesKeepTo(es, n) == SelectSeq(es, LAMBDA e : e.from # n)

cascadeEdges(es, n) == SelectSeq(es, LAMBDA e : e.from # n /\ e.to # n)

DeleteNode(id) ==
  LET n == normalizeId(id) IN
  /\ nodes' = SelectSeq(nodes, LAMBDA v : v.id # n)
  /\ edges' = cascadeEdges(edges, n)
  /\ ret' = Returned("deleteNode", VOID, Len(edges) - Len(cascadeEdges(edges, n)))
  /\ UNCHANGED directed
  /\ NoRun

renameEdgesFromOnly(es, o, n) ==
  [i \in 1..Len(es) |->
     [es[i] EXCEPT !.from = IF @ = o THEN n ELSE @]]

renameEdges(es, o, n) ==
  [i \in 1..Len(es) |->
     [es[i] EXCEPT !.from = IF @ = o THEN n ELSE @,
                   !.to   = IF @ = o THEN n ELSE @]]

RenameNode(oldId, newId) ==
  LET o == normalizeId(oldId)
      n == normalizeId(newId) IN
  /\ NoRun
  /\ UNCHANGED directed
  /\ IF o = n
       THEN ret' = Returned("renameNode", TRUE, 0) /\ UNCHANGED <<nodes, edges>>
     ELSE IF hasNode(nodes, n)
       THEN ret' = Returned("renameNode", FALSE, 0) /\ UNCHANGED <<nodes, edges>>
     ELSE IF ~hasNode(nodes, o)
       THEN ret' = Returned("renameNode", FALSE, 0) /\ UNCHANGED <<nodes, edges>>
     ELSE /\ nodes' = Append(SelectSeq(nodes, LAMBDA v : v.id # o), mkNode(n))
          /\ edges' = renameEdges(edges, o, n)
          /\ ret' = Returned("renameNode", TRUE,
                             Cardinality({i \in 1..Len(edges) : edges[i].from = o \/ edges[i].to = o}))

putEdgeAlwaysPush(es, f, t, w, d) ==
  Append(es, [from |-> f, to |-> t, weight |-> w, directed |-> d])

putEdge(es, f, t, w, d) ==
  LET i == findEdgeIndex(es, f, t) IN
  IF i > 0
    THEN [es EXCEPT ![i].weight = w]
    ELSE Append(es, [from |-> f, to |-> t, weight |-> w, directed |-> d])

AddEdge(from, to, w) ==
  LET f == normalizeId(from)
      t == normalizeId(to) IN
  /\ findEdgeIndex(edges, f, t) > 0 \/ Len(edges) < MaxGraphEdges
  /\ Len(addNodeTo(addNodeTo(nodes, f), t)) <= NodeCap
  /\ nodes' = addNodeTo(addNodeTo(nodes, f), t)
  /\ edges' = putEdge(edges, f, t, w, directed)
  /\ ret' = Returned("addEdge", VOID, IF findEdgeIndex(edges, f, t) > 0 THEN 1 ELSE 0)
  /\ UNCHANGED directed
  /\ NoRun

DeleteEdge(from, to) ==
  LET f == normalizeId(from)
      t == normalizeId(to) IN
  /\ edges' = SelectSeq(edges, LAMBDA e : ~(e.from = f /\ e.to = t))
  /\ ret' = Returned("deleteEdge", VOID, IF findEdgeIndex(edges, f, t) > 0 THEN 1 ELSE 0)
  /\ UNCHANGED <<nodes, directed>>
  /\ NoRun

UpdateEdgeWeight(from, to, w) ==
  LET f == normalizeId(from)
      t == normalizeId(to)
      i == findEdgeIndex(edges, f, t) IN
  /\ edges' = IF i > 0 THEN [edges EXCEPT ![i].weight = w] ELSE edges
  /\ ret' = Returned("updateEdgeWeight", VOID, IF i > 0 THEN 1 ELSE 0)
  /\ UNCHANGED <<nodes, directed>>
  /\ NoRun

SetDirected(d) ==
  /\ directed' = d
  /\ edges' = [i \in 1..Len(edges) |-> [edges[i] EXCEPT !.directed = d]]
  /\ ret' = Returned("setDirected", VOID, Len(edges))
  /\ UNCHANGED nodes
  /\ NoRun

Clear ==
  /\ nodes' = <<>>
  /\ edges' = <<>>
  /\ ret' = Returned("clear", VOID, Len(edges))
  /\ UNCHANGED directed
  /\ NoRun

\* getNeighbors(id): one entry per stored edge leaving id, plus, when the
\* graph is undirected, one per stored edge entering id, in edge order.
RECURSIVE neighborsIn(_, _, _)
neighborsIn(es, d, n) ==
  IF es = <<>> THEN <<>>
  ELSE LET e == Head(es) IN
       (IF e.from = n THEN <<[node |-> e.to, weight |-> e.weight]>> ELSE <<>>)
       \o (IF ~d /\ e.to = n THEN <<[node |-> e.from, weight |-> e.weight]>> ELSE <<>>)
       \o neighborsIn(Tail(es), d, n)

getNeighborsOutOnly(id) == neighborsIn(edges, TRUE, normalizeId(id))

getNeighbors(id) == neighborsIn(edges, directed, normalizeId(id))

\* ---------------------------------------------------------------------
\* The Graph class on its own: new Graph(false), then any method calls
\* ---------------------------------------------------------------------
Idle == [alg |-> "none", pc |-> "idle"]

InitGraph ==
  /\ nodes = <<>>
  /\ edges = <<>>
  /\ directed = FALSE
  /\ ret = Returned("new", VOID, 0)
  /\ gen = Idle
  /\ steps = <<>>
  /\ prev = <<>>
  /\ app = AppIdle

NextGraph ==
  \/ \E id \in AddIds : AddNode(id)
  \/ \E id \in RawIds : DeleteNode(id)
  \/ \E o \in RawIds, n \in RawIds : RenameNode(o, n)
  \/ \E f \in AddIds, t \in AddIds, w \in GraphWeights : AddEdge(f, t, w)
  \/ \E f \in AddIds, t \in AddIds : DeleteEdge(f, t)
  \/ \E f \in AddIds, t \in AddIds, w \in GraphWeights : UpdateEdgeWeight(f, t, w)
  \/ \E d \in BOOLEAN : SetDirected(d)
  \/ Clear

SpecGraph == InitGraph /\ [][NextGraph]_vars

\* ---------------------------------------------------------------------
\* Graphs handed to the algorithms
\* ---------------------------------------------------------------------
A == <<"A">>
B == <<"B">>
C == <<"C">>
D == <<"D">>

mkEdge(f, t, w, d) == [from |-> f, to |-> t, weight |-> w, directed |-> d]

\* Every edge list of at most n edges over the identifiers ids with weights ws
\* that addEdge can build: no ordered pair twice, every tag equal to d.
RECURSIVE EdgeLists(_, _, _, _)
EdgeLists(ids, ws, d, n) ==
  IF n = 0 THEN { <<>> }
  ELSE LET shorter == EdgeLists(ids, ws, d, n - 1)
           longest == { es \in shorter : Len(es) = n - 1 }
       IN shorter \cup
          { Append(x[1], mkEdge(x[2], x[3], x[4], d)) :
              x \in { y \in longest \X ids \X ids \X ws :
                        \A i \in 1..Len(y[1]) : ~(y[1][i].from = y[2] /\ y[1][i].to = y[3]) } }

\* The graph App builds on start-up (App.tsx, "Initialize with sample graph").
SampleNodes == << mkNode(A), mkNode(B), mkNode(C), mkNode(D) >>

SampleEdges(d) ==
  << mkEdge(A, B, 1, d), mkEdge(A, C, 2, d), mkEdge(B, D, 3, d), mkEdge(C, D, 1, d) >>

SmallNodes == << mkNode(A), mkNode(B), mkNode(C) >>

\* The graph is one of the small graphs or the sample graph.
GraphIs(ws, n) ==
  /\ directed \in BOOLEAN
  /\ \/ nodes = SmallNodes /\ edges \in EdgeLists({A, B, C}, ws, directed, n)
     \/ nodes = SampleNodes /\ edges = SampleEdges(directed)
  /\ ret = Returned("addEdge", VOID, 0)

\* No generator calls a mutating Graph method or writes to what getNodes()
\* and getEdges() return: kruskalMST sorts a mapped copy and hierholzer marks
\* used on mapped copies.
GraphEdgesReordered ==
  /\ edges' = [i \in 1..Len(edges) |-> edges[Len(edges) + 1 - i]]
  /\ UNCHANGED <<nodes, directed, ret>>

GraphUnchanged == UNCHANGED <<nodes, edges, directed, ret>>

\* ---------------------------------------------------------------------
\* Driving a generator: every resumption runs the generator to its next
\* yield; runAlgorithm pushes the yielded step (App.tsx for..of loop).
\* ---------------------------------------------------------------------
MaxSteps == 40         \* steps of one run that the model keeps; later ones are dropped

Emit(step) == steps' = IF Len(steps) < MaxSteps THEN Append(steps, step) ELSE steps

has(seq, x) == \E i \in 1..Len(seq) : seq[i] = x

\* Set.add on an insertion-ordered set
setAdd(seq, x) == IF has(seq, x) THEN seq ELSE Append(seq, x)

\* The first index j >= from of nbrs whose node is not in seen, 0 when none:
\* the next iteration of "for (const neighbor of neighbors)" that passes
\* the test !visited.has(neighbor.node).
nextAny(nbrs, seen, from) == IF from <= Len(nbrs) THEN from ELSE 0

nextUnseen(nbrs, seen, from) ==
  IF \E j \in from..Len(nbrs) : ~has(seen, nbrs[j].node)
  THEN CHOOSE j \in from..Len(nbrs) :
         /\ ~has(seen, nbrs[j].node)
         /\ \A k \in from..(j - 1) : has(seen, nbrs[k].node)
  ELSE 0

\* ---------------------------------------------------------------------
\* bfs (algorithms.ts 5-47)
\* ---------------------------------------------------------------------
BfsFrame(startId) ==
  [alg |-> "bfs", pc |-> "start", start |-> toUpperCase(startId),
   visited |-> <<>>, queue |-> <<>>, order |-> <<>>, current |-> <<>>, i |-> 0]

\* while (queue.length > 0): shift, push to order, yield node-current; else return
BfsLoop(g) ==
  IF g.queue = <<>>
  THEN /\ gen' = [g EXCEPT !.pc = "done"]
       /\ UNCHANGED steps
  ELSE LET current == Head(g.queue) IN
       /\ gen' = [g EXCEPT !.pc = "node-current", !.queue = Tail(g.queue),
                           !.order = Append(g.order, current),
                           !.current = current, !.i = 0]
       /\ Emit([type |-> "node-current", nodeId |-> current, highlightNodes |-> g.visited])

\* first resumption: lines 6-11, then the loop
BfsStart ==
  /\ gen.alg = "bfs" /\ gen.pc = "start"
  /\ BfsLoop([gen EXCEPT !.visited = <<gen.start>>, !.queue = <<gen.start>>])
  /\ GraphUnchanged /\ UNCHANGED <<prev, app>>

\* the for loop over getNeighbors(current), resumed after node-current or edge-visit
BfsNeighbors ==
  /\ gen.alg = "bfs" /\ gen.pc \in {"node-current", "edge-visit"}
  /\ LET nbrs == getNeighbors(gen.current)
         j == nextUnseen(nbrs, gen.visited, gen.i + 1) IN
     IF j > 0
     THEN LET visited == Append(gen.visited, nbrs[j].node) IN
          /\ gen' = [gen EXCEPT !.pc = "edge-visit", !.i = j, !.visited = visited,
                                !.queue = Append(gen.queue, nbrs[j].node)]
          /\ Emit([type |-> "edge-visit", edgeFrom |-> gen.current, edgeTo |-> nbrs[j].node,
                   highlightNodes |-> visited])
     ELSE /\ gen' = [gen EXCEPT !.pc = "node-complete"]
          /\ Emit([type |-> "node-complete", nodeId |-> gen.current,
                   highlightNodes |-> gen.visited])
  /\ GraphUnchanged /\ UNCHANGED <<prev, app>>

\* resumed after node-complete: back to the loop test
BfsNextNode ==
  /\ gen.alg = "bfs" /\ gen.pc = "node-complete"
  /\ BfsLoop(gen)
  /\ GraphUnchanged /\ UNCHANGED <<prev, app>>

\* ---------------------------------------------------------------------
\* dfs (algorithms.ts 50-89); stack holds the active dfsVisit calls, each
\* with its nodeId and the index i of the neighbor it is at
\* ---------------------------------------------------------------------
DfsFrame(startId) ==
  [alg |-> "dfs", pc |-> "start", start |-> toUpperCase(startId),
   visited |-> <<>>, order |-> <<>>, stack |-> <<>>]

\* a visit that takes the place of its caller instead of being called by it
DfsVisitInPlace(g, nodeId) ==
  LET visited == setAdd(g.visited, nodeId) IN
  /\ gen' = [g EXCEPT !.pc = "node-current", !.visited = visited,
                      !.order = Append(g.order, nodeId),
                      !.stack = <<[nodeId |-> nodeId, i |-> 0]>>]
  /\ Emit([type |-> "node-current", nodeId |-> nodeId, highlightNodes |-> visited])

\* dfsVisit(nodeId) up to its first yield
DfsVisit(g, nodeId) ==
  LET visited == setAdd(g.visited, nodeId) IN
  /\ gen' = [g EXCEPT !.pc = "node-current", !.visited = visited,
                      !.order = Append(g.order, nodeId),
                      !.stack = Append(g.stack, [nodeId |-> nodeId, i |-> 0])]
  /\ Emit([type |-> "node-current", nodeId |-> nodeId, highlightNodes |-> visited])

\* the for loop of the innermost dfsVisit, continued after index i
DfsScan(g) ==
  LET top == g.stack[Len(g.stack)]
      nbrs == getNeighbors(top.nodeId)
      j == nextUnseen(nbrs, g.visited, top.i + 1) IN
  IF j > 0
  THEN /\ gen' = [g EXCEPT !.pc = "edge-visit", !.stack[Len(g.stack)].i = j]
       /\ Emit([type |-> "edge-visit", edgeFrom |-> top.nodeId, edgeTo |-> nbrs[j].node])
  ELSE /\ gen' = [g EXCEPT !.pc = "node-complete"]
       /\ Emit([type |-> "node-complete", nodeId |-> top.nodeId,
                highlightNodes |-> g.visited])

DfsStart ==
  /\ gen.alg = "dfs" /\ gen.pc = "start"
  /\ DfsVisit(gen, gen.start)
  /\ GraphUnchanged /\ UNCHANGED <<prev, app>>

DfsNeighbors ==
  /\ gen.alg = "dfs" /\ gen.pc = "node-current"
  /\ DfsScan(gen)
  /\ GraphUnchanged /\ UNCHANGED <<prev, app>>

\* resumed after edge-visit: yield* dfsVisit(neighbor.node)
DfsRecurse ==
  /\ gen.alg = "dfs" /\ gen.pc = "edge-visit"
  /\ LET top == gen.stack[Len(gen.stack)] IN
     DfsVisit(gen, getNeighbors(top.nodeId)[top.i].node)
  /\ GraphUnchanged /\ UNCHANGED <<prev, app>>

\* resumed after node-complete: the call returns; its caller continues its loop
DfsReturn ==
  /\ gen.alg = "dfs" /\ gen.pc = "node-complete"
  /\ LET popped == [gen EXCEPT !.stack = SubSeq(gen.stack, 1, Len(gen.stack) - 1)] IN
     IF popped.stack = <<>>
     THEN gen' = [popped EXCEPT !.pc = "done"] /\ UNCHANGED steps
     ELSE DfsScan(popped)
  /\ GraphUnchanged /\ UNCHANGED <<prev, app>>

\* ---------------------------------------------------------------------
\* Traversals on every small graph from every start vertex
\* ---------------------------------------------------------------------
MaxEdges == 3          \* longest edge list of a small graph handed to bfs / dfs

\* runAlgorithm passes the typed identifier; the algorithm upper-cases it
StartInputs == {A, B, C, D, <<"a">>}

InitTraversal ==
  /\ GraphIs({1}, MaxEdges)
  /\ \E s \in StartInputs :
       /\ hasNode(nodes, toUpperCase(s))
       /\ gen \in {BfsFrame(s), DfsFrame(s)}
  /\ steps = <<>>
  /\ prev = <<>>
  /\ app = AppIdle

NextTraversal ==
  \/ BfsStart \/ BfsNeighbors \/ BfsNextNode
  \/ DfsStart \/ DfsNeighbors \/ DfsRecurse \/ DfsReturn

SpecTraversal == InitTraversal /\ [][NextTraversal]_vars

\* Vertices reachable from s along stored edges, read both ways when the
\* graph is undirected.
RECURSIVE ReachFrom(_)
ReachFrom(S) ==
  LET more == S \cup { edges[i].to : i \in { k \in 1..Len(edges) : edges[k].from \in S } }
                 \cup (IF directed THEN {}
                       ELSE { edges[i].from : i \in { k \in 1..Len(edges) : edges[k].to \in S } })
  IN IF more = S THEN S ELSE ReachFrom(more)

\* C4: in the bfs trace and in the dfs trace every vertex reachable from
\* start has exactly one node-current step and no other vertex has any.
C4_TraversalCompleteness ==
  \A v \in Range(NodeIds) :
    LET n == Cardinality({ i \in 1..Len(steps) :
                             steps[i].type = "node-current" /\ steps[i].nodeId = v }) IN
    /\ n <= 1
    /\ v \notin ReachFrom({gen.start}) => n = 0
    /\ (gen.pc = "done" /\ v \in ReachFrom({gen.start})) => n = 1

\* a finished traversal of a graph with a cycle back to start and an unreachable vertex
C4_Witness ==
  /\ gen.pc = "done" /\ gen.alg \in {"bfs", "dfs"}
  /\ Cardinality(ReachFrom({gen.start})) = 2
  /\ \E i \in 1..Len(edges) : edges[i].to = gen.start /\ edges[i].from # gen.start

\* ---------------------------------------------------------------------
\* Numbers: JavaScript's Infinity is a value larger than every sum of weights
\* ---------------------------------------------------------------------
Infinity == 1000000

plus(a, b) == IF a = Infinity \/ b = Infinity THEN Infinity ELSE a + b

minus(a, b) == IF a = Infinity THEN Infinity ELSE a - b

min(a, b) == IF a < b THEN a ELSE b

\* null where a string is expected; like null, the empty string is falsy
NoId == <<>>

\* Map.get: undefined (here NoId / Infinity never arises for a present key)
mapHas(m, k) == k \in DOMAIN m

\* Edge lists in one fixed insertion order: the subsets of the ordered pairs
\* listed in pairs, each edge with any weight of ws.
RECURSIVE EdgeSubLists(_, _, _, _)
EdgeSubLists(pairs, ws, d, n) ==
  IF pairs = <<>> \/ n = 0 THEN { <<>> }
  ELSE LET rest == Tail(pairs) IN
       EdgeSubLists(rest, ws, d, n)
       \cup { <<mkEdge(Head(pairs)[1], Head(pairs)[2], w, d)>> \o es :
                w \in ws, es \in EdgeSubLists(rest, ws, d, n - 1) }

\* ---------------------------------------------------------------------
\* dijkstra (algorithms.ts 92-175)
\* ---------------------------------------------------------------------
DijkstraFrame(startId, endId) ==
  [alg |-> "dijkstra", pc |-> "start",
   start |-> toUpperCase(startId), end |-> toUpperCase(endId),
   distances |-> <<>>, previous |-> <<>>, visited |-> <<>>, current |-> NoId, i |-> 0]

\* a scan that stops at the first unvisited vertex, in getNodes order, with a
\* finite distance; NoId when there is none
pickFirstFinite(ids, visited, distances) ==
  IF \E k \in 1..Len(ids) : ~has(visited, ids[k]) /\ distances[ids[k]] < Infinity
  THEN ids[CHOOSE k \in 1..Len(ids) :
             /\ ~has(visited, ids[k]) /\ distances[ids[k]] < Infinity
             /\ \A m \in 1..(k - 1) : has(visited, ids[m]) \/ distances[ids[m]] >= Infinity]
  ELSE NoId

\* lines 109-117: the forEach scan with its two accumulators
RECURSIVE scanMin(_, _, _, _, _, _)
scanMin(ids, visited, distances, k, current, minDistance) ==
  IF k > Len(ids) THEN current
  ELSE IF ~has(visited, ids[k]) /\ distances[ids[k]] < minDistance
       THEN scanMin(ids, visited, distances, k + 1, ids[k], distances[ids[k]])
       ELSE scanMin(ids, visited, distances, k + 1, current, minDistance)

pickMin(ids, visited, distances) == scanMin(ids, visited, distances, 1, NoId, Infinity)

\* lines 153-159: walk the predecessor links back from cur
RECURSIVE walkBack(_, _, _)
walkBack(previous, cur, path) ==
  IF cur = NoId THEN path
  ELSE walkBack(previous, IF mapHas(previous, cur) THEN previous[cur] ELSE NoId, <<cur>> \o path)

\* Map.get of a missing key
UNDEFINED == [undefined |-> TRUE]

\* lines 152-174: the terminal step
pathFoundStep(g) ==
  LET path == walkBack(g.previous, g.end, <<>>) IN
  IF path # <<>> /\ path[1] = g.start
  THEN [type |-> "path-found", path |-> path,
        totalWeight |-> IF mapHas(g.distances, g.end) THEN g.distances[g.end] ELSE UNDEFINED,
        highlightNodes |-> path]
  ELSE [type |-> "path-found"]

\* while (visited.size < nodes.length): pick, break or yield node-current
DijkstraLoop(g) ==
  LET current == IF Len(g.visited) < Len(nodes)
                   THEN pickMin(NodeIds, g.visited, g.distances) ELSE NoId IN
  IF current = NoId
  THEN /\ gen' = [g EXCEPT !.pc = "path-found"]
       /\ Emit(pathFoundStep(g))
  ELSE LET visited == Append(g.visited, current) IN
       /\ gen' = [g EXCEPT !.pc = "node-current", !.visited = visited,
                           !.current = current, !.i = 0]
       /\ Emit([type |-> "node-current", nodeId |-> current, highlightNodes |-> visited])

DijkstraStart ==
  /\ gen.alg = "dijkstra" /\ gen.pc = "start"
  /\ DijkstraLoop([gen EXCEPT
       !.distances = [id \in Range(NodeIds) |-> IF id = gen.start THEN 0 ELSE Infinity],
       !.previous = [id \in Range(NodeIds) |-> NoId]])
  /\ GraphUnchanged /\ UNCHANGED <<prev, app>>

\* a scan that also takes a neighbor whose distance would stay the same
nextRelaxedOrEqual(nbrs, g, from) ==
  LET ok(j) == /\ ~has(g.visited, nbrs[j].node)
               /\ plus(g.distances[g.current], nbrs[j].weight) <= g.distances[nbrs[j].node] IN
  IF \E j \in from..Len(nbrs) : ok(j)
  THEN CHOOSE j \in from..Len(nbrs) : ok(j) /\ \A k \in from..(j - 1) : ~ok(k)
  ELSE 0

\* the next neighbor, from index from on, that is unvisited and strictly improved
nextRelaxed(nbrs, g, from) ==
  LET ok(j) == /\ ~has(g.visited, nbrs[j].node)
               /\ plus(g.distances[g.current], nbrs[j].weight) < g.distances[nbrs[j].node] IN
  IF \E j \in from..Len(nbrs) : ok(j)
  THEN CHOOSE j \in from..Len(nbrs) : ok(j) /\ \A k \in from..(j - 1) : ~ok(k)
  ELSE 0

\* the for loop over getNeighbors(current), resumed after node-current or edge-visit
DijkstraNeighbors ==
  /\ gen.alg = "dijkstra" /\ gen.pc \in {"node-current", "edge-visit"}
  /\ LET nbrs == getNeighbors(gen.current)
         j == nextRelaxed(nbrs, gen, gen.i + 1) IN
     IF j > 0
     THEN LET newDistance == plus(gen.distances[gen.current], nbrs[j].weight) IN
          /\ gen' = [gen EXCEPT !.pc = "edge-visit", !.i = j,
                                !.distances[nbrs[j].node] = newDistance,
                                !.previous[nbrs[j].node] = gen.current]
          /\ Emit([type |-> "edge-visit", edgeFrom |-> gen.current, edgeTo |-> nbrs[j].node,
                   value |-> newDistance])
     ELSE DijkstraLoop(gen)
  /\ GraphUnchanged /\ UNCHANGED <<prev, app>>

\* resumed after a terminal step: the generator returns
ReturnNever(alg, pc) ==
  /\ gen.alg = alg /\ gen.pc = pc
  /\ UNCHANGED vars

Return(alg, pc) ==
  /\ gen.alg = alg /\ gen.pc = pc
  /\ gen' = [gen EXCEPT !.pc = "done"]
  /\ UNCHANGED steps
  /\ GraphUnchanged /\ UNCHANGED <<prev, app>>

DijkstraReturn == Return("dijkstra", "path-found")

\* ---------------------------------------------------------------------
\* Shortest paths on every small weighted graph, for every start and end
\* ---------------------------------------------------------------------
MaxPathEdges == 3      \* longest edge list of a small graph handed to dijkstra

Weights == 0..MaxWeight

\* ordered pairs of distinct vertices
Pairs == << <<A, B>>, <<A, C>>, <<B, A>>, <<B, C>>, <<C, A>>, <<C, B>> >>

InitDijkstra ==
  /\ directed \in BOOLEAN
  /\ \/ nodes = SmallNodes /\ edges \in EdgeSubLists(Pairs, Weights, directed, MaxPathEdges)
     \/ nodes = SampleNodes /\ edges = SampleEdges(directed)
  /\ ret = Returned("addEdge", VOID, 0)
  /\ \E s \in StartInputs, e \in StartInputs :
       /\ hasNode(nodes, toUpperCase(s)) /\ hasNode(nodes, toUpperCase(e))
       /\ gen = DijkstraFrame(s, e)
  /\ steps = <<>>
  /\ prev = <<>>
  /\ app = AppIdle

NextDijkstra == DijkstraStart \/ DijkstraNeighbors \/ DijkstraReturn

SpecDijkstra == InitDijkstra /\ [][NextDijkstra]_vars

\* The least weight of a walk of at most n edges from s to each vertex
\* (Bellman-Ford rounds over the stored edges, read both ways when undirected).
RECURSIVE LeastWeight(_, _)
LeastWeight(s, n) ==
  IF n = 0 THEN [v \in Range(NodeIds) |-> IF v = s THEN 0 ELSE Infinity]
  ELSE LET d == LeastWeight(s, n - 1)
           into(v) == { plus(d[edges[i].from], edges[i].weight) :
                          i \in { k \in 1..Len(edges) : edges[k].to = v } }
                      \cup (IF directed THEN {}
                            ELSE { plus(d[edges[i].to], edges[i].weight) :
                                     i \in { k \in 1..Len(edges) : edges[k].from = v } })
                      \cup { d[v] }
       IN [v \in Range(NodeIds) |-> CHOOSE x \in into(v) : \A y \in into(v) : x <= y]

\* weights of the stored edges that lead from u to v
JoinWeights(u, v) ==
  { edges[i].weight : i \in { k \in 1..Len(edges) :
      \/ edges[k].from = u /\ edges[k].to = v
      \/ ~directed /\ edges[k].from = v /\ edges[k].to = u } }

RECURSIVE SumSeq(_)
SumSeq(s) == IF s = <<>> THEN 0 ELSE Head(s) + SumSeq(Tail(s))

Last(s) == s[Len(s)]

\* C3: dijkstra ends with a path-found step; when end is reachable from start
\* the step carries a path from start to end along neighbor edges whose
\* totalWeight is the least weight of any start-to-end path (and is the weight
\* of the path carried); when end is not reachable the step carries no path.
C3_ShortestPath ==
  gen.pc = "done" =>
    LET last == Last(steps)
        best == LeastWeight(gen.start, Len(nodes))[gen.end] IN
    /\ last.type = "path-found"
    /\ \A i \in 1..(Len(steps) - 1) : steps[i].type # "path-found"
    /\ IF gen.end \in ReachFrom({gen.start})
       THEN /\ "path" \in DOMAIN last
            /\ last.path[1] = gen.start
            /\ Last(last.path) = gen.end
            /\ \A i \in 1..(Len(last.path) - 1) :
                 JoinWeights(last.path[i], last.path[i + 1]) # {}
            /\ last.totalWeight = best
            /\ \E ws \in [1..(Len(last.path) - 1) -> { edges[k].weight : k \in 1..Len(edges) }] :
                 /\ \A i \in 1..(Len(last.path) - 1) :
                      ws[i] \in JoinWeights(last.path[i], last.path[i + 1])
                 /\ SumSeq(ws) = best
       ELSE "path" \notin DOMAIN last /\ "totalWeight" \notin DOMAIN last

\* a finished run whose shortest path has two edges although a direct edge exists
C3_Witness ==
  /\ gen.alg = "dijkstra" /\ gen.pc = "done"
  /\ "path" \in DOMAIN Last(steps)
  /\ Len(Last(steps).path) = 3
  /\ JoinWeights(gen.start, gen.end) # {}

\* a finished run whose end vertex cannot be reached
C3_WitnessUnreachable ==
  /\ gen.alg = "dijkstra" /\ gen.pc = "done"
  /\ gen.end \notin ReachFrom({gen.start})
  /\ Len(steps) > 2

\* ---------------------------------------------------------------------
\* fordFulkerson (algorithms.ts 378-493)
\* capacity : Map<string, Map<string, number>>; an inner map is a sequence
\* of entries [k, v] in insertion order
\* ---------------------------------------------------------------------
entryHas(m, k) == \E i \in 1..Len(m) : m[i].k = k

entryGet(m, k) == m[CHOOSE i \in 1..Len(m) : m[i].k = k].v

entrySet(m, k, v) ==
  IF entryHas(m, k)
  THEN [i \in 1..Len(m) |-> IF m[i].k = k THEN [k |-> k, v |-> v] ELSE m[i]]
  ELSE Append(m, [k |-> k, v |-> v])

\* lines 386-393
RECURSIVE buildCapacity(_, _)
buildCapacity(cap, es) ==
  IF es = <<>> THEN cap
  ELSE LET e == Head(es) IN
       buildCapacity([cap EXCEPT ![e.from] = entrySet(@, e.to, e.weight)], Tail(es))

FlowFrame(sourceId, sinkId) ==
  [alg |-> "fordFulkerson", pc |-> "start",
   source |-> toUpperCase(sourceId), sink |-> toUpperCase(sinkId),
   capacity |-> <<>>, maxFlow |-> 0,
   visited |-> <<>>, queue |-> <<>>, current |-> NoId, path |-> <<>>, i |-> 0]

\* lines 457-461
firstCap(cap, path, i) ==
  IF Len(path) < 2 THEN Infinity ELSE entryGet(cap[path[1]], path[2])

RECURSIVE minCapOf(_, _, _)
minCapOf(cap, path, i) ==
  IF i > Len(path) - 1 THEN Infinity
  ELSE min(entryGet(cap[path[i]], path[i + 1]), minCapOf(cap, path, i + 1))

\* an update that lowers the forward entries and leaves the reverse ones alone
RECURSIVE augmentForwardOnly(_, _, _, _)
augmentForwardOnly(cap, path, i, minCap) ==
  IF i > Len(path) - 1 THEN cap
  ELSE augmentForwardOnly(
         [cap EXCEPT ![path[i]] = entrySet(@, path[i + 1], minus(entryGet(@, path[i + 1]), minCap))],
         path, i + 1, minCap)

\* lines 464-475
RECURSIVE augment(_, _, _, _)
augment(cap, path, i, minCap) ==
  IF i > Len(path) - 1 THEN cap
  ELSE LET u == path[i]
           v == path[i + 1]
           fwd == [cap EXCEPT ![u] = entrySet(@, v, minus(entryGet(@, v), minCap))]
           rev == IF entryHas(fwd[v], u) THEN fwd ELSE [fwd EXCEPT ![v] = entrySet(@, u, 0)]
       IN augment([rev EXCEPT ![v] = entrySet(@, u, plus(entryGet(@, u), minCap))],
                  path, i + 1, minCap)

\* findPath's while loop: dequeue and yield node-current, or return null, on
\* which the outer loop breaks and the terminal node-complete is yielded
FlowDequeue(g) ==
  IF g.queue = <<>>
  THEN /\ gen' = [g EXCEPT !.pc = "node-complete"]
       /\ Emit([type |-> "node-complete", totalWeight |-> g.maxFlow])
  ELSE LET item == Head(g.queue) IN
       /\ gen' = [g EXCEPT !.pc = "node-current", !.queue = Tail(g.queue),
                           !.current = item.node, !.path = item.path, !.i = 0]
       /\ Emit([type |-> "node-current", nodeId |-> item.node, highlightNodes |-> g.visited])

\* a new findPath() generator, run to its first yield
FlowFindPath(g) ==
  FlowDequeue([g EXCEPT !.visited = <<g.source>>,
                        !.queue = <<[node |-> g.source, path |-> <<g.source>>]>>])

FlowStart ==
  /\ gen.alg = "fordFulkerson" /\ gen.pc = "start"
  /\ FlowFindPath([gen EXCEPT
       !.capacity = buildCapacity([id \in Range(NodeIds) |-> <<>>], edges)])
  /\ GraphUnchanged /\ UNCHANGED <<prev, app>>

\* a scan that follows every unvisited entry, whatever capacity is left on it
nextUnvisited(entries, visited, from) ==
  LET ok(j) == ~has(visited, entries[j].k) IN
  IF \E j \in from..Len(entries) : ok(j)
  THEN CHOOSE j \in from..Len(entries) : ok(j) /\ \A k \in from..(j - 1) : ~ok(k)
  ELSE 0

\* the next entry of the inner map, from index from on, that is unvisited
\* and has positive residual capacity
nextOpen(entries, visited, from) ==
  LET ok(j) == ~has(visited, entries[j].k) /\ entries[j].v > 0 IN
  IF \E j \in from..Len(entries) : ok(j)
  THEN CHOOSE j \in from..Len(entries) : ok(j) /\ \A k \in from..(j - 1) : ~ok(k)
  ELSE 0

\* findPath's for loop over capacity.get(current).entries()
FlowScan(g) ==
  IF ~mapHas(g.capacity, g.current)
  THEN gen' = [g EXCEPT !.pc = "threw"] /\ UNCHANGED steps
  ELSE LET entries == g.capacity[g.current]
           j == nextOpen(entries, g.visited, g.i + 1) IN
       IF j > 0
       THEN /\ gen' = [g EXCEPT !.pc = "edge-visit", !.i = j,
                                !.visited = Append(g.visited, entries[j].k),
                                !.queue = Append(g.queue,
                                    [node |-> entries[j].k, path |-> Append(g.path, entries[j].k)])]
            /\ Emit([type |-> "edge-visit", edgeFrom |-> g.current, edgeTo |-> entries[j].k,
                     value |-> entries[j].v])
       ELSE FlowDequeue(g)

\* resumed after node-current: at the sink findPath returns the path and the
\* outer loop augments along it; elsewhere the for loop starts
FlowVisit ==
  /\ gen.alg = "fordFulkerson" /\ gen.pc = "node-current"
  /\ IF gen.current = gen.sink
     THEN LET minCap == minCapOf(gen.capacity, gen.path, 1)
              maxFlow == plus(gen.maxFlow, minCap) IN
          /\ gen' = [gen EXCEPT !.pc = "flow-update", !.maxFlow = maxFlow,
                                !.capacity = augment(gen.capacity, gen.path, 1, minCap)]
          /\ Emit([type |-> "flow-update", path |-> gen.path, value |-> minCap,
                   totalWeight |-> maxFlow])
     ELSE FlowScan(gen)
  /\ GraphUnchanged /\ UNCHANGED <<prev, app>>

FlowNeighbors ==
  /\ gen.alg = "fordFulkerson" /\ gen.pc = "edge-visit"
  /\ FlowScan(gen)
  /\ GraphUnchanged /\ UNCHANGED <<prev, app>>

\* resumed after flow-update: while (true) starts the next findPath()
FlowAgain ==
  /\ gen.alg = "fordFulkerson" /\ gen.pc = "flow-update"
  /\ FlowFindPath(gen)
  /\ GraphUnchanged /\ UNCHANGED <<prev, app>>

FlowReturn == Return("fordFulkerson", "node-complete")

\* ---------------------------------------------------------------------
\* Maximum flow on every small capacity graph, for every source and sink
\* ---------------------------------------------------------------------
MaxFlowEdges == 3      \* longest edge list of a small graph handed to fordFulkerson

InitFlow ==
  /\ \/ /\ nodes = SmallNodes /\ directed = TRUE
        /\ edges \in EdgeSubLists(Pairs, Weights, directed, MaxFlowEdges)
     \/ /\ nodes = SampleNodes /\ directed \in BOOLEAN
        /\ edges = SampleEdges(directed)
  /\ ret = Returned("addEdge", VOID, 0)
  /\ \E s \in StartInputs, t \in StartInputs :
       /\ hasNode(nodes, toUpperCase(s)) /\ hasNode(nodes, toUpperCase(t))
       /\ gen = FlowFrame(s, t)
  /\ steps = <<>>
  /\ prev = <<>>
  /\ app = AppIdle

NextFlow == FlowStart \/ FlowVisit \/ FlowNeighbors \/ FlowAgain \/ FlowReturn

SpecFlow == InitFlow /\ [][NextFlow]_vars

\* runAlgorithm's for..of loop resumes the generator until it returns
SpecFlowFair == SpecFlow /\ WF_vars(NextFlow)

\* C1: every run of fordFulkerson whose source and sink are vertices of the
\* graph comes to an end, and its last step is then the node-complete step
\* carrying the total flow.
C1_FlowTerminates ==
  <>(/\ gen.pc = "done"
     /\ Last(steps).type = "node-complete"
     /\ Last(steps).totalWeight = gen.maxFlow)

\* capacity of the cut (S, V \ S): the weights of the stored edges leaving S
CutCapacity(S) ==
  SumSeq([i \in 1..Len(edges) |->
            IF edges[i].from \in S /\ edges[i].to \notin S THEN edges[i].weight ELSE 0])

MinCut(s, t) ==
  LET cuts == { CutCapacity(S \cup {s}) : S \in SUBSET (Range(NodeIds) \ {s, t}) }
  IN CHOOSE c \in cuts : \A x \in cuts : c <= x

\* C2: with source and sink distinct vertices, the totalWeight of the terminal
\* node-complete step is the capacity of a minimum source-sink cut.
C2_MaxFlowMinCut ==
  (gen.pc = "done" /\ gen.source # gen.sink) =>
    /\ Last(steps).type = "node-complete"
    /\ Last(steps).totalWeight = MinCut(gen.source, gen.sink)

\* a finished run that augmented along two paths of different bottlenecks
C2_Witness ==
  /\ gen.alg = "fordFulkerson" /\ gen.pc = "done" /\ gen.source # gen.sink
  /\ \E i, j \in 1..Len(steps) :
       /\ i < j
       /\ steps[i].type = "flow-update" /\ steps[j].type = "flow-update"
       /\ steps[i].value # steps[j].value
       /\ Len(steps[i].path) # Len(steps[j].path)

\* ---------------------------------------------------------------------
\* primMST (algorithms.ts 232-293); inMST : Set<string> in insertion order
\* ---------------------------------------------------------------------
PrimFrame ==
  [alg |-> "primMST", pc |-> "start", inMST |-> <<>>, mstEdges |-> <<>>, totalWeight |-> 0]

\* a scan that takes every neighbor entry of every tree vertex
RECURSIVE crossingEdgesAll(_, _)
crossingEdgesAll(inMST, k) ==
  IF k > Len(inMST) THEN <<>>
  ELSE LET nbrs == getNeighbors(inMST[k]) IN
       [j \in 1..Len(nbrs) |->
          [from |-> inMST[k], to |-> nbrs[j].node, weight |-> nbrs[j].weight]]
       \o crossingEdgesAll(inMST, k + 1)

\* lines 254-267 in scan order: every neighbor entry of every tree vertex
\* that leads out of the tree
RECURSIVE crossingEdges(_, _)
crossingEdges(inMST, k) ==
  IF k > Len(inMST) THEN <<>>
  ELSE LET nbrs == getNeighbors(inMST[k])
           all == [j \in 1..Len(nbrs) |->
                     [from |-> inMST[k], to |-> nbrs[j].node, weight |-> nbrs[j].weight]]
       IN SelectSeq(all, LAMBDA c : ~has(inMST, c.to)) \o crossingEdges(inMST, k + 1)

\* a scan that keeps the candidate it meets first
firstCandidate(cands) == cands[1]

\* lines 251-265: minEdge starts as null and is replaced only by a strictly
\* lighter candidate
RECURSIVE scanLightest(_, _, _)
scanLightest(cands, k, minEdge) ==
  IF k > Len(cands) THEN minEdge
  ELSE IF minEdge = NULL \/ cands[k].weight < minEdge.weight
       THEN scanLightest(cands, k + 1, cands[k])
       ELSE scanLightest(cands, k + 1, minEdge)

lightest(cands) == scanLightest(cands, 1, NULL)

\* while (inMST.size < nodes.length), broken off when no edge leaves the tree
PrimLoop(g) ==
  LET cands == crossingEdges(g.inMST, 1) IN
  IF Len(g.inMST) < Len(nodes) /\ cands # <<>>
  THEN LET minEdge == lightest(cands)
           inMST == setAdd(g.inMST, minEdge.to)
           mstEdges == Append(g.mstEdges, [from |-> minEdge.from, to |-> minEdge.to])
       IN /\ gen' = [g EXCEPT !.pc = "mst-edge", !.inMST = inMST, !.mstEdges = mstEdges,
                              !.totalWeight = g.totalWeight + minEdge.weight]
          /\ Emit([type |-> "mst-edge", edgeFrom |-> minEdge.from, edgeTo |-> minEdge.to,
                   value |-> minEdge.weight, highlightNodes |-> inMST,
                   highlightEdges |-> mstEdges])
  ELSE /\ gen' = [g EXCEPT !.pc = "node-complete"]
       /\ Emit([type |-> "node-complete", highlightNodes |-> g.inMST,
                highlightEdges |-> g.mstEdges, totalWeight |-> g.totalWeight])

PrimStart ==
  /\ gen.alg = "primMST" /\ gen.pc = "start"
  /\ IF Len(nodes) = 0
     THEN gen' = [gen EXCEPT !.pc = "done"] /\ UNCHANGED steps
     ELSE /\ gen' = [gen EXCEPT !.pc = "node-visit", !.inMST = <<nodes[1].id>>]
          /\ Emit([type |-> "node-visit", nodeId |-> nodes[1].id,
                   highlightNodes |-> <<nodes[1].id>>])
  /\ GraphUnchanged /\ UNCHANGED <<prev, app>>

PrimGrow ==
  /\ gen.alg = "primMST" /\ gen.pc \in {"node-visit", "mst-edge"}
  /\ PrimLoop(gen)
  /\ GraphUnchanged /\ UNCHANGED <<prev, app>>

PrimReturn == Return("primMST", "node-complete")

\* ---------------------------------------------------------------------
\* kruskalMST (algorithms.ts 296-375)
\* ---------------------------------------------------------------------
\* an insertion that puts an edge before the edges of its own weight
RECURSIVE insertBeforeEqual(_, _)
insertBeforeEqual(sorted, e) ==
  IF sorted = <<>> THEN <<e>>
  ELSE IF e.weight <= Head(sorted).weight THEN <<e>> \o sorted
  ELSE <<Head(sorted)>> \o insertBeforeEqual(Tail(sorted), e)

\* Array.prototype.sort with (a, b) => a.weight - b.weight: stable
RECURSIVE insertByWeight(_, _)
insertByWeight(sorted, e) ==
  IF sorted = <<>> THEN <<e>>
  ELSE IF e.weight < Head(sorted).weight THEN <<e>> \o sorted
  ELSE <<Head(sorted)>> \o insertByWeight(Tail(sorted), e)

RECURSIVE sortByWeight(_)
sortByWeight(es) ==
  IF es = <<>> THEN <<>>
  ELSE insertByWeight(sortByWeight(SubSeq(es, 1, Len(es) - 1)), es[Len(es)])

\* find with path compression: the root of x and the parent map afterwards
RECURSIVE find(_, _)
find(parent, x) ==
  IF entryGet(parent, x) # x
  THEN LET r == find(parent, entryGet(parent, x)) IN
       [parent |-> entrySet(r.parent, x, r.root), root |-> r.root]
  ELSE [parent |-> parent, root |-> x]

\* a union that joins without comparing the roots
unionAlways(parent, rank, x, y) ==
  LET fx == find(parent, x)
      fy == find(fx.parent, y)
  IN [parent |-> entrySet(fy.parent, fy.root, fx.root), rank |-> rank, joined |-> TRUE]

\* union by rank: the maps afterwards and whether two trees were joined
union(parent, rank, x, y) ==
  LET fx == find(parent, x)
      fy == find(fx.parent, y)
      rootX == fx.root
      rootY == fy.root
      p == fy.parent
  IN IF rootX = rootY THEN [parent |-> p, rank |-> rank, joined |-> FALSE]
     ELSE IF entryGet(rank, rootX) < entryGet(rank, rootY)
     THEN [parent |-> entrySet(p, rootX, rootY), rank |-> rank, joined |-> TRUE]
     ELSE IF entryGet(rank, rootX) > entryGet(rank, rootY)
     THEN [parent |-> entrySet(p, rootY, rootX), rank |-> rank, joined |-> TRUE]
     ELSE [parent |-> entrySet(p, rootY, rootX),
           rank |-> entrySet(rank, rootX, entryGet(rank, rootX) + 1), joined |-> TRUE]

KruskalFrame ==
  [alg |-> "kruskalMST", pc |-> "start", sorted |-> <<>>, parent |-> <<>>, rank |-> <<>>,
   mstEdges |-> <<>>, totalWeight |-> 0, k |-> 0]

\* for (const edge of edges): the next edge-visit, or the terminal step
KruskalLoop(g) ==
  IF g.k < Len(g.sorted)
  THEN LET edge == g.sorted[g.k + 1] IN
       /\ gen' = [g EXCEPT !.pc = "edge-visit", !.k = g.k + 1]
       /\ Emit([type |-> "edge-visit", edgeFrom |-> edge.from, edgeTo |-> edge.to,
                value |-> edge.weight, highlightEdges |-> g.mstEdges])
  ELSE /\ gen' = [g EXCEPT !.pc = "node-complete"]
       /\ Emit([type |-> "node-complete", highlightEdges |-> g.mstEdges,
                totalWeight |-> g.totalWeight])

KruskalStart ==
  /\ gen.alg = "kruskalMST" /\ gen.pc = "start"
  /\ KruskalLoop([gen EXCEPT
       !.sorted = sortByWeight([i \in 1..Len(edges) |->
                     [from |-> edges[i].from, to |-> edges[i].to, weight |-> edges[i].weight]]),
       !.parent = [i \in 1..Len(nodes) |-> [k |-> nodes[i].id, v |-> nodes[i].id]],
       !.rank = [i \in 1..Len(nodes) |-> [k |-> nodes[i].id, v |-> 0]]])
  /\ GraphUnchanged /\ UNCHANGED <<prev, app>>

\* resumed after edge-visit: accept the edge or reject it
KruskalDecide ==
  /\ gen.alg = "kruskalMST" /\ gen.pc = "edge-visit"
  /\ LET edge == gen.sorted[gen.k]
         u == union(gen.parent, gen.rank, edge.from, edge.to) IN
     IF u.joined
     THEN LET mstEdges == Append(gen.mstEdges, [from |-> edge.from, to |-> edge.to]) IN
          /\ gen' = [gen EXCEPT !.pc = "mst-edge", !.parent = u.parent, !.rank = u.rank,
                                !.mstEdges = mstEdges,
                                !.totalWeight = gen.totalWeight + edge.weight]
          /\ Emit([type |-> "mst-edge", edgeFrom |-> edge.from, edgeTo |-> edge.to,
                   value |-> edge.weight, highlightEdges |-> mstEdges])
     ELSE /\ gen' = [gen EXCEPT !.pc = "rejected", !.parent = u.parent]
          /\ Emit([type |-> "node-complete", highlightEdges |-> gen.mstEdges])
  /\ GraphUnchanged /\ UNCHANGED <<prev, app>>

KruskalNext ==
  /\ gen.alg = "kruskalMST" /\ gen.pc \in {"mst-edge", "rejected"}
  /\ KruskalLoop(gen)
  /\ GraphUnchanged /\ UNCHANGED <<prev, app>>

KruskalReturn == Return("kruskalMST", "node-complete")

\* runAlgorithm called again with the other algorithm on the same graph;
\* prev keeps the step list that the new run replaces
RunKruskal ==
  /\ gen.alg = "primMST" /\ gen.pc = "done"
  /\ gen' = KruskalFrame
  /\ prev' = steps
  /\ UNCHANGED app
  /\ steps' = <<>>
  /\ GraphUnchanged

MaxTreeEdges == 3      \* edges of a small graph handed to primMST and kruskalMST

TreeWeights == {1, 2}

\* the vertex pairs of the sample graph, in its edge order
SamplePairs == << <<A, B>>, <<A, C>>, <<B, D>>, <<C, D>> >>

\* the sample graph with some of its edges, in its order, under every choice
\* of weights
SampleShaped(ws, d) == EdgeSubLists(SamplePairs, ws, d, Len(SamplePairs))

\* small graphs with parallel edges in both orders and a self-loop at A only,
\* the sample graph, and the sample graph with edges left out and reweighted
InitMST ==
  /\ directed \in BOOLEAN
  /\ \/ /\ nodes = SmallNodes
        /\ edges \in { es \in EdgeLists({A, B, C}, TreeWeights, directed, MaxTreeEdges) :
                         \A i \in 1..Len(es) : es[i].from = es[i].to => es[i].from = A }
     \/ nodes = SampleNodes /\ edges = SampleEdges(directed)
     \/ nodes = SampleNodes /\ edges \in SampleShaped(TreeWeights, directed)
  /\ ret = Returned("addEdge", VOID, 0)
  /\ gen = PrimFrame
  /\ steps = <<>>
  /\ prev = <<>>
  /\ app = AppIdle

NextMST ==
  \/ PrimStart \/ PrimGrow \/ PrimReturn
  \/ RunKruskal
  \/ KruskalStart \/ KruskalDecide \/ KruskalNext \/ KruskalReturn

SpecMST == InitMST /\ [][NextMST]_vars

\* vertices joined to S by the stored edges with index in T, walked both ways
RECURSIVE TreeReach(_, _)
TreeReach(T, S) ==
  LET more == S \cup { edges[i].to : i \in { k \in T : edges[k].from \in S } }
                 \cup { edges[i].from : i \in { k \in T : edges[k].to \in S } }
  IN IF more = S THEN S ELSE TreeReach(T, more)

RECURSIVE WeightOf(_)
WeightOf(T) ==
  IF T = {} THEN 0
  ELSE LET i == CHOOSE k \in T : TRUE IN edges[i].weight + WeightOf(T \ {i})

\* the edge sets that are spanning trees: |V| - 1 edges joining all vertices
SpanningTrees ==
  { T \in SUBSET (1..Len(edges)) :
      /\ Cardinality(T) = Len(nodes) - 1
      /\ TreeReach(T, {nodes[1].id}) = Range(NodeIds) }

MstEdgeCount(ss) == Cardinality({ i \in 1..Len(ss) : ss[i].type = "mst-edge" })

\* C5: on a connected undirected graph primMST and kruskalMST end with a
\* node-complete step of the same totalWeight, each has |V| - 1 mst-edge steps,
\* and that totalWeight is the least weight of any spanning tree.
C5_MinimumSpanningTree ==
  (gen.alg = "kruskalMST" /\ gen.pc = "done" /\ ~directed /\ SpanningTrees # {}) =>
    /\ Last(prev).type = "node-complete" /\ Last(steps).type = "node-complete"
    /\ Last(prev).totalWeight = Last(steps).totalWeight
    /\ MstEdgeCount(prev) = Len(nodes) - 1
    /\ MstEdgeCount(steps) = Len(nodes) - 1
    /\ \E T \in SpanningTrees : WeightOf(T) = Last(steps).totalWeight
    /\ \A T \in SpanningTrees : WeightOf(T) >= Last(steps).totalWeight

\* both runs finished on a connected undirected graph with a cycle whose
\* edges do not all weigh the same, so that some spanning tree is not minimal
C5_Witness ==
  /\ gen.alg = "kruskalMST" /\ gen.pc = "done" /\ ~directed
  /\ \E T \in SpanningTrees : WeightOf(T) > Last(steps).totalWeight
  /\ \E i \in 1..Len(steps) : steps[i].type = "node-complete" /\ i < Len(steps)

\* ---------------------------------------------------------------------
\* checkBipartite (algorithms.ts 178-229); color : Map<string, number> is a
\* sequence of entries [k, v]; ni is the position of the outer for..of
\* ---------------------------------------------------------------------
BipartiteFrame ==
  [alg |-> "checkBipartite", pc |-> "start",
   color |-> <<>>, queue |-> <<>>, current |-> NoId, ni |-> 0, i |-> 0]

\* while (queue.length > 0): dequeue and yield node-current; when the queue
\* is empty the outer loop goes on to the next uncolored vertex, and after
\* the last vertex the final partition step is yielded
RECURSIVE BipartiteLoop(_)
BipartiteLoop(g) ==
  IF g.queue # <<>>
  THEN /\ gen' = [g EXCEPT !.pc = "node-current", !.queue = Tail(g.queue),
                           !.current = Head(g.queue), !.i = 0]
       /\ Emit([type |-> "node-current", nodeId |-> Head(g.queue), partition |-> g.color])
  ELSE IF g.ni >= Len(nodes)
  THEN /\ gen' = [g EXCEPT !.pc = "partition"]
       /\ Emit([type |-> "partition", partition |-> g.color, message |-> "bipartite"])
  ELSE LET startNode == nodes[g.ni + 1].id IN
       IF entryHas(g.color, startNode)
       THEN BipartiteLoop([g EXCEPT !.ni = g.ni + 1])
       ELSE BipartiteLoop([g EXCEPT !.ni = g.ni + 1, !.queue = <<startNode>>,
                                    !.color = entrySet(g.color, startNode, 0)])

BipartiteStart ==
  /\ gen.alg = "checkBipartite" /\ gen.pc = "start"
  /\ BipartiteLoop(gen)
  /\ GraphUnchanged /\ UNCHANGED <<prev, app>>

\* the next neighbor, from index from on, that is uncolored or has the
\* color of the current vertex
nextUncolored(nbrs, color, currentColor, from) ==
  LET ok(j) == ~entryHas(color, nbrs[j].node) IN
  IF \E j \in from..Len(nbrs) : ok(j)
  THEN CHOOSE j \in from..Len(nbrs) : ok(j) /\ \A k \in from..(j - 1) : ~ok(k)
  ELSE 0

nextColorEvent(nbrs, color, currentColor, from) ==
  LET ok(j) == \/ ~entryHas(color, nbrs[j].node)
               \/ entryGet(color, nbrs[j].node) = currentColor IN
  IF \E j \in from..Len(nbrs) : ok(j)
  THEN CHOOSE j \in from..Len(nbrs) : ok(j) /\ \A k \in from..(j - 1) : ~ok(k)
  ELSE 0

\* the for loop over getNeighbors(current), resumed after node-current or edge-visit
BipartiteNeighbors ==
  /\ gen.alg = "checkBipartite" /\ gen.pc \in {"node-current", "edge-visit"}
  /\ LET nbrs == getNeighbors(gen.current)
         currentColor == entryGet(gen.color, gen.current)
         j == nextColorEvent(nbrs, gen.color, currentColor, gen.i + 1) IN
     IF j = 0 THEN BipartiteLoop(gen)
     ELSE IF ~entryHas(gen.color, nbrs[j].node)
     THEN LET color == entrySet(gen.color, nbrs[j].node, 1 - currentColor) IN
          /\ gen' = [gen EXCEPT !.pc = "edge-visit", !.i = j, !.color = color,
                                !.queue = Append(gen.queue, nbrs[j].node)]
          /\ Emit([type |-> "edge-visit", edgeFrom |-> gen.current, edgeTo |-> nbrs[j].node,
                   partition |-> color])
     ELSE /\ gen' = [gen EXCEPT !.pc = "partition", !.i = j]
          /\ Emit([type |-> "partition", partition |-> gen.color,
                   message |-> "not bipartite"])
  /\ GraphUnchanged /\ UNCHANGED <<prev, app>>

\* a generator that goes back to its queue after a partition step
BipartiteGoesOn ==
  /\ gen.alg = "checkBipartite" /\ gen.pc = "partition"
  /\ BipartiteLoop(gen)
  /\ GraphUnchanged /\ UNCHANGED <<prev, app>>

BipartiteReturn == Return("checkBipartite", "partition")

InitBipartite ==
  /\ GraphIs({1}, MaxEdges)
  /\ gen = BipartiteFrame
  /\ steps = <<>>
  /\ prev = <<>>
  /\ app = AppIdle

NextBipartite == BipartiteStart \/ BipartiteNeighbors \/ BipartiteReturn

SpecBipartite == InitBipartite /\ [][NextBipartite]_vars

\* Pairs <<v, p>>: v is the end of a walk of parity p from a vertex of S,
\* stored edges being walked in both directions.
RECURSIVE ParityReach(_)
ParityReach(S) ==
  LET more == S \cup { <<edges[x[2]].to, 1 - x[1][2]>> :
                         x \in { y \in S \X (1..Len(edges)) : edges[y[2]].from = y[1][1] } }
                 \cup { <<edges[x[2]].from, 1 - x[1][2]>> :
                         x \in { y \in S \X (1..Len(edges)) : edges[y[2]].to = y[1][1] } }
  IN IF more = S THEN S ELSE ParityReach(more)

\* a closed walk of odd length exists (a self-loop is one of length 1)
HasOddCycle == \E v \in Range(NodeIds) : <<v, 1>> \in ParityReach({<<v, 0>>})

\* C6: on an undirected graph the trace of checkBipartite ends with its only
\* partition step; that step says bipartite exactly when the graph has no odd
\* cycle, and then its partition colors every vertex 0 or 1 and gives the two
\* endpoints of every edge different colors.
C6_BipartiteVerdict ==
  (gen.pc = "done" /\ ~directed) =>
    LET last == Last(steps) IN
    /\ last.type = "partition"
    /\ \A i \in 1..(Len(steps) - 1) : steps[i].type # "partition"
    /\ (last.message = "bipartite") <=> ~HasOddCycle
    /\ last.message = "bipartite" =>
         /\ \A v \in Range(NodeIds) :
              entryHas(last.partition, v) /\ entryGet(last.partition, v) \in {0, 1}
         /\ \A i \in 1..Len(edges) :
              entryGet(last.partition, edges[i].from) # entryGet(last.partition, edges[i].to)

\* a finished check of an undirected graph with edges that is bipartite ...
C6_Witness ==
  /\ gen.alg = "checkBipartite" /\ gen.pc = "done" /\ ~directed
  /\ Len(edges) >= 2 /\ Last(steps).message = "bipartite"

\* ... and one that is not, its odd cycle being a triangle
C6_WitnessOdd ==
  /\ gen.alg = "checkBipartite" /\ gen.pc = "done" /\ ~directed
  /\ Last(steps).message = "not bipartite"
  /\ \A i \in 1..Len(edges) : edges[i].from # edges[i].to

\* ---------------------------------------------------------------------
\* hierholzer (algorithms.ts 496-578); used[i] is edges[i].used of the copy
\* ---------------------------------------------------------------------
\* lines 501-509
degreeOf(v) ==
  Cardinality({ i \in 1..Len(edges) : edges[i].from = v })
  + (IF directed THEN 0 ELSE Cardinality({ i \in 1..Len(edges) : edges[i].to = v }))

\* lines 512-518: the first vertex of odd degree, else the first vertex
eulerStart ==
  IF \E k \in 1..Len(nodes) : degreeOf(nodes[k].id) % 2 = 1
  THEN nodes[CHOOSE k \in 1..Len(nodes) :
               /\ degreeOf(nodes[k].id) % 2 = 1
               /\ \A m \in 1..(k - 1) : degreeOf(nodes[m].id) % 2 # 1].id
  ELSE IF nodes = <<>> THEN NoId ELSE nodes[1].id

\* a search that does not look at the used marks
getUnusedEdgeAgain(used, from) ==
  LET ok(i) == edges[i].from = from \/ (~directed /\ edges[i].to = from) IN
  IF \E i \in 1..Len(edges) : ok(i)
  THEN CHOOSE i \in 1..Len(edges) : ok(i) /\ \A k \in 1..(i - 1) : ~ok(k)
  ELSE 0

\* lines 523-533: index of the first unused edge at from, 0 when none
getUnusedEdgeOutOnly(used, from) ==
  LET ok(i) == ~used[i] /\ edges[i].from = from IN
  IF \E i \in 1..Len(edges) : ok(i)
  THEN CHOOSE i \in 1..Len(edges) : ok(i) /\ \A k \in 1..(i - 1) : ~ok(k)
  ELSE 0

getUnusedEdge(used, from) ==
  LET ok(i) == ~used[i] /\ (edges[i].from = from \/ (~directed /\ edges[i].to = from)) IN
  IF \E i \in 1..Len(edges) : ok(i)
  THEN CHOOSE i \in 1..Len(edges) : ok(i) /\ \A k \in 1..(i - 1) : ~ok(k)
  ELSE 0

Reverse(s) == [i \in 1..Len(s) |-> s[Len(s) + 1 - i]]

HierholzerFrame ==
  [alg |-> "hierholzer", pc |-> "start", used |-> <<>>, stack |-> <<>>, path |-> <<>>]

\* while (stack.length > 0): yield node-current for the top; after the loop
\* reverse the path and yield the terminal node-complete
HierholzerLoop(g) ==
  IF g.stack # <<>>
  THEN /\ gen' = [g EXCEPT !.pc = "node-current"]
       /\ Emit([type |-> "node-current", nodeId |-> Last(g.stack), path |-> g.path])
  ELSE /\ gen' = [g EXCEPT !.pc = "node-complete", !.path = Reverse(g.path)]
       /\ Emit([type |-> "node-complete", path |-> Reverse(g.path)])

\* lines 497-543: the copies, the start vertex and the first loop test
HierholzerBegin(g) ==
  HierholzerLoop([g EXCEPT !.used = [i \in 1..Len(edges) |-> FALSE],
                           !.stack = <<eulerStart>>])

\* lines 545-568: take an unused edge or pop the vertex
HierholzerTake(g) ==
  LET current == Last(g.stack)
      i == getUnusedEdge(g.used, current) IN
  IF i > 0
  THEN LET to == IF edges[i].from = current THEN edges[i].to ELSE edges[i].from IN
       /\ gen' = [g EXCEPT !.pc = "edge-visit", !.used[i] = TRUE,
                           !.stack = Append(g.stack, to)]
       /\ Emit([type |-> "edge-visit", edgeFrom |-> current, edgeTo |-> to,
                path |-> g.path])
  ELSE LET path == Append(g.path, current) IN
       /\ gen' = [g EXCEPT !.pc = "euler-path", !.path = path,
                           !.stack = SubSeq(g.stack, 1, Len(g.stack) - 1)]
       /\ Emit([type |-> "euler-path", nodeId |-> current, path |-> path])

HierholzerStart ==
  /\ gen.alg = "hierholzer" /\ gen.pc = "start"
  /\ HierholzerBegin(gen)
  /\ GraphUnchanged /\ UNCHANGED <<prev, app>>

\* resumed after node-current
HierholzerStep ==
  /\ gen.alg = "hierholzer" /\ gen.pc = "node-current"
  /\ HierholzerTake(gen)
  /\ GraphUnchanged /\ UNCHANGED <<prev, app>>

\* resumed after edge-visit or euler-path: back to the loop test
HierholzerNext ==
  /\ gen.alg = "hierholzer" /\ gen.pc \in {"edge-visit", "euler-path"}
  /\ HierholzerLoop(gen)
  /\ GraphUnchanged /\ UNCHANGED <<prev, app>>

HierholzerReturn == Return("hierholzer", "node-complete")

InitEuler ==
  /\ GraphIs({1}, MaxEdges)
  /\ gen = HierholzerFrame
  /\ steps = <<>>
  /\ prev = <<>>
  /\ app = AppIdle

NextEuler == HierholzerStart \/ HierholzerStep \/ HierholzerNext \/ HierholzerReturn

SpecEuler == InitEuler /\ [][NextEuler]_vars

\* number of edge ends at v, a self-loop counting twice
TrueDegree(v) ==
  Cardinality({ i \in 1..Len(edges) : edges[i].from = v })
  + Cardinality({ i \in 1..Len(edges) : edges[i].to = v })

EvenConnected ==
  /\ ~directed
  /\ nodes # <<>>
  /\ \A v \in Range(NodeIds) : TrueDegree(v) % 2 = 0
  /\ ReachFrom({nodes[1].id}) = Range(NodeIds)

\* C7: on an undirected graph with every degree even and all vertices in one
\* component, hierholzer emits one edge-visit step per stored edge, and its
\* final path has |E| + 1 vertices, ends where it starts, and walks every
\* stored edge exactly once.
C7_EulerCircuit ==
  (gen.pc = "done" /\ EvenConnected) =>
    LET path == Last(steps).path IN
    /\ Last(steps).type = "node-complete"
    /\ Cardinality({ i \in 1..Len(steps) : steps[i].type = "edge-visit" }) = Len(edges)
    /\ Len(path) = Len(edges) + 1
    /\ path[1] = path[Len(path)]
    /\ \E f \in [1..Len(edges) -> 1..Len(edges)] :
         /\ \A i, j \in 1..Len(edges) : f[i] = f[j] => i = j
         /\ \A i \in 1..Len(edges) :
              \/ edges[f[i]].from = path[i] /\ edges[f[i]].to = path[i + 1]
              \/ edges[f[i]].to = path[i] /\ edges[f[i]].from = path[i + 1]

\* a finished run on an even, connected, undirected graph with at least three edges
C7_Witness ==
  /\ gen.alg = "hierholzer" /\ gen.pc = "done"
  /\ EvenConnected /\ Len(edges) >= 3
  /\ \E i \in 1..Len(edges) : edges[i].to = nodes[1].id /\ edges[i].from # nodes[1].id

\* ---------------------------------------------------------------------
\* fleury (algorithms.ts 581-587): yield* hierholzer(graph) hands every
\* resumption to the inner generator and passes its steps through
\* ---------------------------------------------------------------------
FleuryFrame == [HierholzerFrame EXCEPT !.alg = "fleury"]

FleuryResumeNoFinal ==
  /\ gen.alg = "fleury" /\ gen.pc # "done"
  /\ CASE gen.pc = "start" -> HierholzerBegin(gen)
       [] gen.pc = "node-current" -> HierholzerTake(gen)
       [] gen.pc \in {"edge-visit", "euler-path"} ->
            IF gen.stack = <<>>
            THEN gen' = [gen EXCEPT !.pc = "done"] /\ UNCHANGED steps
            ELSE HierholzerLoop(gen)
       [] gen.pc = "node-complete" -> gen' = [gen EXCEPT !.pc = "done"] /\ UNCHANGED steps
  /\ GraphUnchanged /\ UNCHANGED <<prev, app>>

FleuryResume ==
  /\ gen.alg = "fleury" /\ gen.pc # "done"
  /\ CASE gen.pc = "start" -> HierholzerBegin(gen)
       [] gen.pc = "node-current" -> HierholzerTake(gen)
       [] gen.pc \in {"edge-visit", "euler-path"} -> HierholzerLoop(gen)
       [] gen.pc = "node-complete" -> gen' = [gen EXCEPT !.pc = "done"] /\ UNCHANGED steps
  /\ GraphUnchanged /\ UNCHANGED <<prev, app>>

\* runAlgorithm called again with fleury selected, on the same graph
RunFleury ==
  /\ gen.alg = "hierholzer" /\ gen.pc = "done"
  /\ gen' = FleuryFrame
  /\ prev' = steps
  /\ UNCHANGED app
  /\ steps' = <<>>
  /\ GraphUnchanged

InitFleury == InitEuler

NextFleury == NextEuler \/ RunFleury \/ FleuryResume

SpecFleury == InitFleury /\ [][NextFleury]_vars

\* C20: the step list of fleury is, step for step, the step list hierholzer
\* produced on the same graph (at every moment of the run it is a prefix of it).
C20_FleuryIsHierholzer ==
  gen.alg = "fleury" =>
    /\ Len(steps) <= Len(prev)
    /\ steps = SubSeq(prev, 1, Len(steps))
    /\ gen.pc = "done" => steps = prev

\* fleury finished after hierholzer on a graph whose walk took three edges or more
C20_Witness ==
  /\ gen.alg = "fleury" /\ gen.pc = "done"
  /\ Len(Last(steps).path) >= 4
  /\ Cardinality({ i \in 1..Len(prev) : prev[i].type = "edge-visit" }) >= 3

\* ---------------------------------------------------------------------
\* Any algorithm run twice on the same graph with the same parameters
\* (App.runAlgorithm: a new generator each time, drained by for..of)
\* ---------------------------------------------------------------------
\* typed start / end identifiers: lower case, upper case, and one with a
\* leading blank, which Graph.getNode accepts but toUpperCase leaves unknown
RunInputs == { <<"a">>, B, <<" ", "a">> }

RunPairs == << <<A, A>>, <<A, B>>, <<B, A>>, <<B, C>>, <<C, A>> >>

RunWeights == {-1, 1}

MaxRunEdges == 2       \* longest edge list of a small graph run twice

\* the generator object runAlgorithm creates for the same entry point and
\* parameters; FreshStale keeps the locals of the finished generator
FreshStale(g) == [g EXCEPT !.pc = "start"]

Fresh(g) ==
  CASE g.alg = "bfs" -> BfsFrame(g.start)
    [] g.alg = "dfs" -> DfsFrame(g.start)
    [] g.alg = "dijkstra" -> DijkstraFrame(g.start, g.end)
    [] g.alg = "fordFulkerson" -> FlowFrame(g.source, g.sink)
    [] g.alg = "checkBipartite" -> BipartiteFrame
    [] g.alg = "primMST" -> PrimFrame
    [] g.alg = "kruskalMST" -> KruskalFrame
    [] g.alg = "hierholzer" -> HierholzerFrame
    [] g.alg = "fleury" -> FleuryFrame

RunAgain ==
  /\ gen.pc = "done" /\ prev = <<>>
  /\ gen' = Fresh(gen)
  /\ prev' = steps
  /\ UNCHANGED app
  /\ steps' = <<>>
  /\ GraphUnchanged

InitRerun ==
  /\ directed \in BOOLEAN
  /\ \/ nodes = SmallNodes /\ edges \in EdgeSubLists(RunPairs, RunWeights, directed, MaxRunEdges)
     \/ nodes = SampleNodes /\ edges = SampleEdges(directed)
  /\ ret = Returned("addEdge", VOID, 0)
  /\ gen \in { BfsFrame(s) : s \in RunInputs } \cup { DfsFrame(s) : s \in RunInputs }
             \cup { DijkstraFrame(s, e) : s \in RunInputs, e \in RunInputs }
             \cup { FlowFrame(s, t) : s \in RunInputs, t \in RunInputs }
             \cup { BipartiteFrame, PrimFrame, KruskalFrame, HierholzerFrame, FleuryFrame }
  /\ steps = <<>>
  /\ prev = <<>>
  /\ app = AppIdle

NextRerun ==
  \/ BfsStart \/ BfsNeighbors \/ BfsNextNode
  \/ DfsStart \/ DfsNeighbors \/ DfsRecurse \/ DfsReturn
  \/ DijkstraStart \/ DijkstraNeighbors \/ DijkstraReturn
  \/ BipartiteStart \/ BipartiteNeighbors \/ BipartiteReturn
  \/ PrimStart \/ PrimGrow \/ PrimReturn
  \/ KruskalStart \/ KruskalDecide \/ KruskalNext \/ KruskalReturn
  \/ FlowStart \/ FlowVisit \/ FlowNeighbors \/ FlowAgain \/ FlowReturn
  \/ HierholzerStart \/ HierholzerStep \/ HierholzerNext \/ HierholzerReturn
  \/ FleuryResume
  \/ RunAgain

SpecRerun == InitRerun /\ [][NextRerun]_vars

Bounded == {"bfs", "dfs", "dijkstra", "checkBipartite", "primMST", "kruskalMST", "hierholzer"}

\* one run of each of the seven entry points other than fordFulkerson and fleury
InitBounded == InitRerun /\ gen.alg \in Bounded

NextBounded ==
  \/ BfsStart \/ BfsNeighbors \/ BfsNextNode
  \/ DfsStart \/ DfsNeighbors \/ DfsRecurse \/ DfsReturn
  \/ DijkstraStart \/ DijkstraNeighbors \/ DijkstraReturn
  \/ BipartiteStart \/ BipartiteNeighbors \/ BipartiteReturn
  \/ PrimStart \/ PrimGrow \/ PrimReturn
  \/ KruskalStart \/ KruskalDecide \/ KruskalNext \/ KruskalReturn
  \/ HierholzerStart \/ HierholzerStep \/ HierholzerNext \/ HierholzerReturn

\* runAlgorithm's for..of loop resumes the generator until it returns
SpecBoundedFair == InitBounded /\ [][NextBounded]_vars /\ WF_vars(NextBounded)

C15_OthersTerminate ==
  <>(gen.alg \in Bounded /\ gen.pc = "done" /\ Len(steps) < MaxSteps)

\* dijkstra finished with a path of two edges, one of them of negative weight
C15_Witness ==
  /\ gen.alg = "dijkstra" /\ gen.pc = "done"
  /\ "path" \in DOMAIN Last(steps) /\ Len(Last(steps).path) = 3
  /\ \E i \in 1..Len(edges) : edges[i].weight < 0

\* C16: fordFulkerson with a source or sink that is no vertex raises no
\* exception, emits no flow-update step and ends reporting total flow 0.
C16_MissingEndpointFlow ==
  (gen.alg = "fordFulkerson" /\ (~hasNode(nodes, gen.source) \/ ~hasNode(nodes, gen.sink))) =>
    /\ gen.pc # "threw"
    /\ \A i \in 1..Len(steps) : steps[i].type # "flow-update"
    /\ gen.pc = "done" =>
         (Last(steps).type = "node-complete" /\ Last(steps).totalWeight = 0)

\* C17: dijkstra with a start or end that is no vertex ends with a path-found
\* step carrying neither a path nor a totalWeight.
C17_MissingEndpointPath ==
  (/\ gen.alg = "dijkstra" /\ gen.pc = "done"
   /\ (~hasNode(nodes, gen.start) \/ ~hasNode(nodes, gen.end))) =>
    /\ Last(steps).type = "path-found"
    /\ "path" \notin DOMAIN Last(steps)
    /\ "totalWeight" \notin DOMAIN Last(steps)

\* C18: no step of any run changes the vertices, the edge list (order,
\* endpoints, weights, tags) or the directedness flag.
C18_GraphUntouched ==
  [][nodes' = nodes /\ edges' = edges /\ directed' = directed]_vars

\* kruskalMST finished having sorted its edges into another order than the
\* stored one
C18_Witness ==
  /\ gen.alg = "kruskalMST" /\ gen.pc = "done"
  /\ \E i \in 1..Len(edges) : gen.sorted[i].weight # edges[i].weight

\* The payloads that are the generator's own array, not a copy of it, as
\* pairs <<payload field, local>>: the terminal steps of primMST (line 289),
\* kruskalMST (line 371) and hierholzer (line 575).  Every other array
\* payload is a copy made for the step (Array.from, spread, new Map), or an
\* array nothing writes to once it is built (the paths of dijkstra and
\* fordFulkerson).
sharedPayloadNoCopies(alg, step) ==
  CASE alg = "primMST" /\ step.type \in {"mst-edge", "node-complete"} ->
         { <<"highlightEdges", "mstEdges">> }
    [] alg = "kruskalMST" /\ step.type \in {"edge-visit", "mst-edge", "node-complete"} ->
         { <<"highlightEdges", "mstEdges">> }
    [] alg \in {"hierholzer", "fleury"} -> { <<"path", "path">> }
    [] OTHER -> {}

sharedPayload(alg, step) ==
  CASE alg = "primMST" /\ step.type = "node-complete" -> { <<"highlightEdges", "mstEdges">> }
    [] alg = "kruskalMST" /\ step.type = "node-complete" /\ "totalWeight" \in DOMAIN step ->
         { <<"highlightEdges", "mstEdges">> }
    [] alg \in {"hierholzer", "fleury"} /\ step.type = "node-complete" -> { <<"path", "path">> }
    [] OTHER -> {}

\* C19: an emitted step never changes: the list of steps only grows at its
\* end, and a payload that is the generator's own array still has the value
\* it had when the step was emitted.
C19_StepsImmutable ==
  /\ [](\A i \in 1..Len(steps) : \A s \in sharedPayload(gen.alg, steps[i]) :
          steps[i][s[1]] = gen[s[2]])
  /\ [][prev' = prev =>
          (Len(steps') >= Len(steps) /\ SubSeq(steps', 1, Len(steps)) = steps)]_vars

\* hierholzer finished: its terminal step holds the reversed path array and an
\* earlier euler-path step a copy taken while the array was growing
C19_Witness ==
  /\ gen.alg = "hierholzer" /\ gen.pc = "done"
  /\ Len(Last(steps).path) >= 3
  /\ Last(steps).path # Reverse(Last(steps).path)
  /\ \E i \in 1..(Len(steps) - 1) :
       steps[i].type = "euler-path" /\ Len(steps[i].path) = 2

\* ---------------------------------------------------------------------
\* App.runAlgorithm (App.tsx 104-215): the typed identifiers are validated
\* with Graph.getNode and handed to the algorithm as typed
\* ---------------------------------------------------------------------
\* lines 729-731
getNode(id) ==
  IF hasNode(nodes, normalizeId(id))
  THEN nodes[CHOOSE i \in 1..Len(nodes) : nodes[i].id = normalizeId(id)]
  ELSE UNDEFINED

\* the early returns of the switch: an empty input or an unknown vertex
accepts(algorithm, startNode, endNode) ==
  CASE algorithm \in {"bfs", "dfs"} ->
         startNode # <<>> /\ getNode(startNode) # UNDEFINED
    [] algorithm \in {"shortest-path", "ford-fulkerson"} ->
         /\ startNode # <<>> /\ endNode # <<>>
         /\ getNode(startNode) # UNDEFINED /\ getNode(endNode) # UNDEFINED
    [] OTHER -> TRUE

generatorOf(algorithm, startNode, endNode) ==
  CASE algorithm = "bfs" -> BfsFrame(startNode)
    [] algorithm = "dfs" -> DfsFrame(startNode)
    [] algorithm = "shortest-path" -> DijkstraFrame(startNode, endNode)
    [] algorithm = "bipartite" -> BipartiteFrame
    [] algorithm = "prim" -> PrimFrame
    [] algorithm = "kruskal" -> KruskalFrame
    [] algorithm = "ford-fulkerson" -> FlowFrame(startNode, endNode)
    [] algorithm = "hierholzer" -> HierholzerFrame
    [] algorithm = "fleury" -> FleuryFrame

Algorithms ==
  {"bfs", "dfs", "shortest-path", "bipartite", "prim", "kruskal", "ford-fulkerson",
   "hierholzer", "fleury"}

\* what the user typed into the start and end fields
TypedIds == { <<>>, <<"a">>, <<" ", "a">>, D }

\* the auto-play effect (264-287), run after a render: the old interval is
\* cleared and, while playing a non-empty trace, a new one is set whose
\* callback sees the trace of that render
effect(a) ==
  [a EXCEPT !.playInterval =
     IF a.isPlaying /\ a.algorithmSteps # <<>>
     THEN [length |-> Len(a.algorithmSteps)] ELSE NULL]

\* a call that validates first and touches the playback state only when it
\* starts a producer
RunAlgorithmKeepsTrace(algorithm, startNode, endNode) ==
  /\ gen = Idle
  /\ steps' = <<>>
  /\ IF Len(nodes) # 0 /\ accepts(algorithm, startNode, endNode)
     THEN gen' = generatorOf(algorithm, startNode, endNode) /\ prev' = <<>> /\ app' = AppIdle
     ELSE gen' = gen /\ prev' = app.algorithmSteps /\ app' = app
  /\ GraphUnchanged

\* lines 104-197: playback is stopped and the trace discarded before anything
\* else; an empty graph or a rejected input ends the call there. prev keeps
\* the trace a rejected call has discarded.
RunAlgorithm(algorithm, startNode, endNode) ==
  /\ gen = Idle
  /\ app' = AppIdle
  /\ steps' = <<>>
  /\ IF Len(nodes) # 0 /\ accepts(algorithm, startNode, endNode)
     THEN gen' = generatorOf(algorithm, startNode, endNode) /\ prev' = <<>>
     ELSE gen' = gen /\ prev' = app.algorithmSteps
  /\ GraphUnchanged

\* lines 199-211: the for..of loop has drained the generator
Collect ==
  /\ gen.pc = "done"
  /\ app' = effect([app EXCEPT !.algorithmSteps = steps,
                               !.currentStepIndex = IF steps # <<>> THEN 0 ELSE -1])
  /\ gen' = Idle
  /\ steps' = <<>>
  /\ GraphUnchanged /\ UNCHANGED prev

\* lines 212-214: the generator threw; the collected steps are dropped
Catch ==
  /\ gen.pc = "threw"
  /\ gen' = Idle
  /\ steps' = <<>>
  /\ GraphUnchanged /\ UNCHANGED <<prev, app>>

\* the call runAlgorithm() of a handler, with whatever is selected and typed
RunSelected ==
  \E algorithm \in Algorithms, startNode \in TypedIds, endNode \in TypedIds :
    RunAlgorithm(algorithm, startNode, endNode)

\* lines 218-225
HandlePlay ==
  /\ gen = Idle
  /\ IF app.algorithmSteps = <<>>
     THEN RunSelected
     ELSE /\ app' = effect([app EXCEPT !.isPlaying = TRUE])
          /\ GraphUnchanged /\ UNCHANGED <<gen, steps, prev>>

\* lines 227-229
HandlePause ==
  /\ gen = Idle
  /\ app' = effect([app EXCEPT !.isPlaying = FALSE])
  /\ GraphUnchanged /\ UNCHANGED <<gen, steps, prev>>

\* lines 231-242
HandleStepForward ==
  /\ gen = Idle
  /\ IF app.algorithmSteps = <<>>
     THEN RunSelected
     ELSE /\ app' = effect(IF app.currentStepIndex < Len(app.algorithmSteps) - 1
                           THEN [app EXCEPT !.currentStepIndex = @ + 1] ELSE app)
          /\ GraphUnchanged /\ UNCHANGED <<gen, steps, prev>>

\* a handler that steps back whatever the index is
HandleStepBackwardAlways ==
  /\ gen = Idle
  /\ app' = effect([app EXCEPT !.currentStepIndex = @ - 1])
  /\ GraphUnchanged /\ UNCHANGED <<gen, steps, prev>>

\* lines 244-250
HandleStepBackward ==
  /\ gen = Idle
  /\ app' = effect(IF app.currentStepIndex > 0
                   THEN [app EXCEPT !.currentStepIndex = @ - 1] ELSE app)
  /\ GraphUnchanged /\ UNCHANGED <<gen, steps, prev>>

\* lines 252-261
HandleReset ==
  /\ gen = Idle
  /\ app' = AppIdle
  /\ GraphUnchanged /\ UNCHANGED <<gen, steps, prev>>

\* a callback that stops only once the index has passed the last step
TickLate ==
  /\ gen = Idle /\ app.playInterval # NULL
  /\ app' = IF app.currentStepIndex > app.playInterval.length - 1
            THEN [app EXCEPT !.isPlaying = FALSE]
            ELSE [app EXCEPT !.currentStepIndex = @ + 1]
  /\ GraphUnchanged /\ UNCHANGED <<gen, steps, prev>>

\* lines 266-275: the interval callback; the effect that follows a change of
\* isPlaying runs later (FlushEffect)
Tick ==
  /\ gen = Idle /\ app.playInterval # NULL
  /\ app' = IF app.currentStepIndex >= app.playInterval.length - 1
            THEN [app EXCEPT !.isPlaying = FALSE]
            ELSE [app EXCEPT !.currentStepIndex = @ + 1]
  /\ GraphUnchanged /\ UNCHANGED <<gen, steps, prev>>

\* lines 277-280: the effect after the callback has turned isPlaying off
FlushEffect ==
  /\ gen = Idle /\ app # effect(app)
  /\ app' = effect(app)
  /\ GraphUnchanged /\ UNCHANGED <<gen, steps, prev>>

\* a few edges over three vertices, the sample graph, and the empty graph
InitApp ==
  /\ directed \in BOOLEAN
  /\ \/ nodes = SmallNodes /\ edges \in EdgeSubLists(RunPairs, {1}, directed, MaxRunEdges)
     \/ nodes = SampleNodes /\ edges = SampleEdges(directed)
     \/ nodes = <<>> /\ edges = <<>>
  /\ ret = Returned("addEdge", VOID, 0)
  /\ gen = Idle
  /\ steps = <<>>
  /\ prev = <<>>
  /\ app = AppIdle

NextApp ==
  \/ RunSelected
  \/ HandlePlay \/ HandleStepForward
  \/ Collect \/ Catch
  \/ HandlePause \/ HandleStepBackward \/ HandleReset
  \/ Tick \/ FlushEffect
  \/ BfsStart \/ BfsNeighbors \/ BfsNextNode
  \/ DfsStart \/ DfsNeighbors \/ DfsRecurse \/ DfsReturn
  \/ DijkstraStart \/ DijkstraNeighbors \/ DijkstraReturn
  \/ BipartiteStart \/ BipartiteNeighbors \/ BipartiteReturn
  \/ PrimStart \/ PrimGrow \/ PrimReturn
  \/ KruskalStart \/ KruskalDecide \/ KruskalNext \/ KruskalReturn
  \/ FlowStart \/ FlowVisit \/ FlowNeighbors \/ FlowAgain \/ FlowReturn
  \/ HierholzerStart \/ HierholzerStep \/ HierholzerNext \/ HierholzerReturn
  \/ FleuryResume

SpecApp == InitApp /\ [][NextApp]_vars

\* C21: the start / source and end / sink identifiers an algorithm started by
\* runAlgorithm works with are identifiers of vertices of the graph.
C21_ValidatedEndpoints ==
  /\ gen.alg \in {"bfs", "dfs"} => hasNode(nodes, gen.start)
  /\ gen.alg = "dijkstra" => (hasNode(nodes, gen.start) /\ hasNode(nodes, gen.end))
  /\ gen.alg = "fordFulkerson" => (hasNode(nodes, gen.source) /\ hasNode(nodes, gen.sink))

\* ---------------------------------------------------------------------
\* Shape of the traversal traces
\* ---------------------------------------------------------------------
\* the vertex a node-current or edge-visit step belongs to
ownerOf(step) == IF step.type = "edge-visit" THEN step.edgeFrom ELSE step.nodeId

IndexesOf(type) == { i \in 1..Len(steps) : steps[i].type = type }

\* C22: in a bfs trace the steps of a visited vertex v are one contiguous
\* block node-current(v), edge-visit(v, _)*, node-complete(v); an edge-visit
\* (v, u) is emitted only for a u not discovered before, so every vertex is
\* the edgeTo of at most one edge-visit and the start vertex of none.
C22_BfsBlocks ==
  gen.alg = "bfs" =>
    /\ \A i \in 1..Len(steps) :
         CASE steps[i].type = "node-current" ->
                i = 1 \/ steps[i - 1].type = "node-complete"
           [] steps[i].type = "edge-visit" ->
                /\ i > 1 /\ steps[i - 1].type \in {"node-current", "edge-visit"}
                /\ ownerOf(steps[i - 1]) = steps[i].edgeFrom
           [] steps[i].type = "node-complete" ->
                /\ i > 1 /\ steps[i - 1].type \in {"node-current", "edge-visit"}
                /\ ownerOf(steps[i - 1]) = steps[i].nodeId
           [] OTHER -> FALSE
    /\ \A i, j \in IndexesOf("node-current") : steps[i].nodeId = steps[j].nodeId => i = j
    /\ \A i, j \in IndexesOf("edge-visit") : steps[i].edgeTo = steps[j].edgeTo => i = j
    /\ \A i \in IndexesOf("edge-visit") : steps[i].edgeTo # gen.start
    /\ gen.pc = "done" => (steps # <<>> /\ steps[Len(steps)].type = "node-complete")

\* a finished bfs in which one vertex discovered two others and some neighbor
\* entry was skipped because its vertex was already discovered
C22_Witness ==
  /\ gen.alg = "bfs" /\ gen.pc = "done"
  /\ \E i \in 1..(Len(steps) - 1) :
       steps[i].type = "edge-visit" /\ steps[i + 1].type = "edge-visit"
  /\ \E i \in IndexesOf("node-current") :
       Len(getNeighbors(steps[i].nodeId)) >
         Cardinality({ j \in IndexesOf("edge-visit") : steps[j].edgeFrom = steps[i].nodeId })

\* the edgeTo of the edge-visit steps leaving v, in trace order
visitsFrom(v) ==
  LET leaves(step) == step.type = "edge-visit" /\ step.edgeFrom = v
      chosen == SelectSeq(steps, leaves) IN
  [k \in 1..Len(chosen) |-> chosen[k].edgeTo]

\* C23: in a finished dfs trace every visited vertex v has one edge-visit
\* step per entry of getNeighbors(v), in neighbor-query order, entries whose
\* neighbor was already visited included.
C23_DfsEveryNeighborEdge ==
  (gen.alg = "dfs" /\ gen.pc = "done") =>
    \A i \in IndexesOf("node-current") :
      LET nbrs == getNeighbors(steps[i].nodeId) IN
      visitsFrom(steps[i].nodeId) = [k \in 1..Len(nbrs) |-> nbrs[k].node]

\* ---------------------------------------------------------------------
\* Selection and relaxation in dijkstra
\* ---------------------------------------------------------------------
\* the place of a vertex in getNodes order
orderOf(id) == CHOOSE k \in 1..Len(NodeIds) : NodeIds[k] = id

\* the vertices visited before the one chosen last
visitedBefore == SubSeq(gen.visited, 1, Len(gen.visited) - 1)

\* every vertex is visited, or no unvisited vertex has a finite distance
loopIsOver(visited) ==
  \/ \A v \in Range(NodeIds) : has(visited, v)
  \/ \A v \in Range(NodeIds) : has(visited, v) \/ gen.distances[v] >= Infinity

\* C24: at a node-current step of dijkstra the chosen vertex was unvisited,
\* its distance is finite and least among the unvisited vertices, and no
\* unvisited vertex before it in getNodes order has the same distance; the
\* loop is left exactly when every vertex is visited or no unvisited vertex
\* has a finite distance.
C24_DijkstraSelection ==
  gen.alg = "dijkstra" =>
    /\ gen.pc = "node-current" =>
         /\ ~has(visitedBefore, gen.current)
         /\ hasNode(nodes, gen.current)
         /\ gen.distances[gen.current] < Infinity
         /\ \A k \in 1..Len(NodeIds) :
              has(visitedBefore, NodeIds[k]) \/
                /\ gen.distances[NodeIds[k]] >= gen.distances[gen.current]
                /\ k < orderOf(gen.current) =>
                     gen.distances[NodeIds[k]] > gen.distances[gen.current]
         /\ ~loopIsOver(visitedBefore)
    /\ gen.pc = "path-found" => loopIsOver(gen.visited)

\* a vertex is chosen while a later unvisited vertex has the same distance
C24_Witness ==
  /\ gen.alg = "dijkstra" /\ gen.pc = "node-current"
  /\ \E k \in 1..Len(NodeIds) :
       /\ k > orderOf(gen.current)
       /\ ~has(gen.visited, NodeIds[k])
       /\ gen.distances[NodeIds[k]] = gen.distances[gen.current]

\* the neighbor entry would lower the distance of an unvisited vertex
relaxes(g, entry) ==
  /\ ~has(g.visited, entry.node)
  /\ plus(g.distances[g.current], entry.weight) < g.distances[entry.node]

\* C25: while dijkstra scans the neighbors of the current vertex u, an
\* edge-visit step is emitted for a neighbor entry (u, v) exactly when v is
\* unvisited and dist(u) + weight is strictly below the distance of v, and its
\* value is the new distance of v; no distance ever increases, and the
\* distance of a visited vertex never changes.
C25_DijkstraRelaxation ==
  [][(gen.alg = "dijkstra" /\ gen.pc \in {"node-current", "edge-visit"}) =>
       LET nbrs == getNeighbors(gen.current)
           last == IF gen'.pc = "edge-visit" THEN gen'.i ELSE Len(nbrs) + 1
           step == steps'[Len(steps')] IN
       /\ Len(steps') = Len(steps) + 1
       /\ \A k \in (gen.i + 1)..(last - 1) : ~relaxes(gen, nbrs[k])
       /\ IF gen'.pc = "edge-visit"
          THEN /\ last \in (gen.i + 1)..Len(nbrs)
               /\ relaxes(gen, nbrs[last])
               /\ step.type = "edge-visit"
               /\ step.edgeFrom = gen.current /\ step.edgeTo = nbrs[last].node
               /\ step.value = plus(gen.distances[gen.current], nbrs[last].weight)
               /\ step.value = gen'.distances[step.edgeTo]
          ELSE step.type # "edge-visit"
       /\ \A v \in DOMAIN gen.distances :
            /\ gen'.distances[v] <= gen.distances[v]
            /\ has(gen.visited, v) => gen'.distances[v] = gen.distances[v]]_vars

\* the distance of a vertex is lowered for the second time
C25_Witness ==
  /\ gen.alg = "dijkstra" /\ gen.pc = "edge-visit"
  /\ \E i \in 1..(Len(steps) - 1) :
       /\ steps[i].type = "edge-visit"
       /\ steps[i].edgeTo = steps[Len(steps)].edgeTo
       /\ steps[i].value > steps[Len(steps)].value

\* ---------------------------------------------------------------------
\* The end of a checkBipartite trace
\* ---------------------------------------------------------------------
\* C26: the partition step emitted when a neighbor has the color of the
\* current vertex is the last step of the trace: the generator is suspended
\* at it or has returned, whatever is left in the queue or uncolored.
C26_ConflictEndsTrace ==
  gen.alg = "checkBipartite" =>
    \A i \in 1..Len(steps) :
      (steps[i].type = "partition" /\ steps[i].message = "not bipartite") =>
        /\ i = Len(steps)
        /\ gen.pc \in {"partition", "done"}
        /\ \E k \in 1..Len(getNeighbors(gen.current)) :
             LET n == getNeighbors(gen.current)[k].node IN
             /\ entryHas(gen.color, n)
             /\ entryGet(gen.color, n) = entryGet(gen.color, gen.current)

\* the check has returned after a conflict with a vertex still in the queue
\* and a vertex still uncolored
C26_Witness ==
  /\ gen.alg = "checkBipartite" /\ gen.pc = "done"
  /\ steps[Len(steps)].message = "not bipartite"
  /\ gen.queue # <<>>
  /\ \E v \in Range(NodeIds) : ~entryHas(gen.color, v)

\* ---------------------------------------------------------------------
\* The rounds of primMST
\* ---------------------------------------------------------------------
\* the tree set before the vertex added last
insideBefore == SubSeq(gen.inMST, 1, Len(gen.inMST) - 1)

\* the neighbor entries leading out of the set inside, inside endpoints taken
\* in getNodes order from position k on, entries in neighbor-query order
RECURSIVE crossingInNodeOrder(_, _)
crossingInNodeOrder(inside, k) ==
  IF k > Len(NodeIds) THEN <<>>
  ELSE LET nbrs == getNeighbors(NodeIds[k])
           all == [j \in 1..Len(nbrs) |->
                     [from |-> NodeIds[k], to |-> nbrs[j].node, weight |-> nbrs[j].weight]]
       IN (IF has(inside, NodeIds[k])
           THEN SelectSeq(all, LAMBDA c : ~has(inside, c.to)) ELSE <<>>)
          \o crossingInNodeOrder(inside, k + 1)

\* the first candidate of least weight
firstLeast(cands) ==
  cands[CHOOSE i \in 1..Len(cands) :
          /\ \A j \in 1..Len(cands) : cands[i].weight <= cands[j].weight
          /\ \A j \in 1..(i - 1) : cands[j].weight > cands[i].weight]

acceptedEdge ==
  LET step == steps[Len(steps)] IN
  [from |-> step.edgeFrom, to |-> step.edgeTo, weight |-> step.value]

\* C27: the edge accepted in a round of primMST has the least weight among
\* the neighbor edges leading out of the tree set, and among those of least
\* weight it is the first of a scan over the inside endpoints in getNodes
\* order and, for each, over its neighbor edges in edge insertion order.
C27_PrimTieBreak ==
  (gen.alg = "primMST" /\ gen.pc = "mst-edge") =>
    LET cands == crossingInNodeOrder(insideBefore, 1) IN
    /\ cands # <<>>
    /\ acceptedEdge.weight = firstLeast(cands).weight
    /\ acceptedEdge = firstLeast(cands)

\* the tree set before step i of a primMST trace
insideAt(i) ==
  {nodes[1].id} \cup { steps[j].edgeTo : j \in { k \in 1..(i - 1) : steps[k].type = "mst-edge" } }

RECURSIVE sumOfAccepted(_)
sumOfAccepted(ss) ==
  IF ss = <<>> THEN 0
  ELSE (IF Head(ss).type = "mst-edge" THEN Head(ss).value ELSE 0) + sumOfAccepted(Tail(ss))

\* C28: when the first inserted vertex cannot reach every vertex, primMST
\* raises nothing and stops when no edge leaves the tree set: the trace has
\* (vertices reachable from the first vertex) - 1 mst-edge steps, each from a
\* vertex inside the set built so far to one outside it, and ends with a
\* node-complete step whose totalWeight is the sum of their values.
C28_PrimPartialTree ==
  (gen.alg = "primMST" /\ Len(nodes) > 0 /\ ReachFrom({nodes[1].id}) # Range(NodeIds)) =>
    /\ gen.pc # "threw"
    /\ \A i \in IndexesOf("mst-edge") :
         steps[i].edgeFrom \in insideAt(i) /\ steps[i].edgeTo \notin insideAt(i)
    /\ \A i \in IndexesOf("node-complete") : i = Len(steps)
    /\ gen.pc \in {"node-complete", "done"} =>
         /\ steps[Len(steps)].type = "node-complete"
         /\ \A v \in Range(gen.inMST) : \A k \in 1..Len(getNeighbors(v)) :
              has(gen.inMST, getNeighbors(v)[k].node)
         /\ MstEdgeCount(steps) = Cardinality(ReachFrom({nodes[1].id})) - 1
         /\ steps[Len(steps)].totalWeight = sumOfAccepted(steps)

\* a finished run that built a tree of two edges and left a vertex out
C28_Witness ==
  /\ gen.alg = "primMST" /\ gen.pc = "done"
  /\ ReachFrom({nodes[1].id}) # Range(NodeIds)
  /\ MstEdgeCount(steps) = 2

\* ---------------------------------------------------------------------
\* kruskalMST: union-find against the accepted edges
\* ---------------------------------------------------------------------
\* vertices joined to S by the edges of the list accepted, walked both ways
RECURSIVE joinedBy(_, _)
joinedBy(accepted, S) ==
  LET more == S \cup { accepted[i].to : i \in { k \in 1..Len(accepted) : accepted[k].from \in S } }
                 \cup { accepted[i].from : i \in { k \in 1..Len(accepted) : accepted[k].to \in S } }
  IN IF more = S THEN S ELSE joinedBy(accepted, more)

\* C29: in kruskalMST an edge-visit step is followed by an mst-edge step of
\* the same edge exactly when its endpoints are not joined by the edges
\* accepted before it, and by a node-complete rejection otherwise; two
\* vertices have the same root exactly when accepted edges join them; the
\* accepted edges form a forest.
C29_KruskalUnionFind ==
  (gen.alg = "kruskalMST" /\ gen.pc # "start") =>
    /\ \A i \in 1..(Len(steps) - 1) :
         steps[i].type = "edge-visit" =>
           IF steps[i].edgeTo \in joinedBy(steps[i].highlightEdges, {steps[i].edgeFrom})
           THEN /\ steps[i + 1].type = "node-complete"
                /\ "totalWeight" \notin DOMAIN steps[i + 1]
                /\ steps[i + 1].highlightEdges = steps[i].highlightEdges
           ELSE /\ steps[i + 1].type = "mst-edge"
                /\ steps[i + 1].edgeFrom = steps[i].edgeFrom
                /\ steps[i + 1].edgeTo = steps[i].edgeTo
                /\ steps[i + 1].highlightEdges =
                     Append(steps[i].highlightEdges,
                            [from |-> steps[i].edgeFrom, to |-> steps[i].edgeTo])
    /\ \A x, y \in Range(NodeIds) :
         (find(gen.parent, x).root = find(gen.parent, y).root)
           <=> (y \in joinedBy(gen.mstEdges, {x}))
    /\ Len(gen.mstEdges) + Cardinality({ joinedBy(gen.mstEdges, {x}) : x \in Range(NodeIds) })
         = Len(nodes)

\* a finished run that accepted two edges and rejected an edge between two
\* different vertices
C29_Witness ==
  /\ gen.alg = "kruskalMST" /\ gen.pc = "done"
  /\ Len(gen.mstEdges) >= 2
  /\ \E i \in 1..(Len(steps) - 1) :
       steps[i].type = "edge-visit" /\ steps[i].edgeFrom # steps[i].edgeTo
         /\ steps[i + 1].type = "node-complete"

\* the edges considered so far, in the order of their edge-visit steps
consideredEdges ==
  LET visits == SelectSeq(steps, LAMBDA step : step.type = "edge-visit") IN
  [k \in 1..Len(visits) |->
     [from |-> visits[k].edgeFrom, to |-> visits[k].edgeTo, weight |-> visits[k].value]]

\* the ways of listing every stored edge once
Listings == { p \in [1..Len(edges) -> 1..Len(edges)] : \A i, j \in 1..Len(edges) : p[i] = p[j] => i = j }

\* C30: a finished kruskalMST trace considers every stored edge exactly once,
\* in non-decreasing order of weight, edges of equal weight in the order of
\* the edge list.
C30_KruskalOrder ==
  (gen.alg = "kruskalMST" /\ gen.pc = "done") =>
    /\ Len(consideredEdges) = Len(edges)
    /\ \E p \in Listings :
         /\ \A k \in 1..Len(edges) :
              consideredEdges[k] =
                [from |-> edges[p[k]].from, to |-> edges[p[k]].to, weight |-> edges[p[k]].weight]
         /\ \A k, l \in 1..Len(edges) :
              k < l => \/ edges[p[k]].weight < edges[p[l]].weight
                       \/ edges[p[k]].weight = edges[p[l]].weight /\ p[k] < p[l]

\* a finished run on an edge list that stores a heavier edge before two
\* lighter edges of equal weight
C30_Witness ==
  /\ gen.alg = "kruskalMST" /\ gen.pc = "done"
  /\ \E i, j, k \in 1..Len(edges) :
       /\ i < j /\ j < k
       /\ edges[i].weight > edges[j].weight
       /\ edges[j].weight = edges[k].weight

\* ---------------------------------------------------------------------
\* Residual capacities and augmenting paths of fordFulkerson
\* ---------------------------------------------------------------------
\* the runs whose source and sink are different vertices
InitFlowDistinct == InitFlow /\ gen.source # gen.sink

SpecFlowDistinct == InitFlowDistinct /\ [][NextFlow]_vars

\* residual capacity from u to v, a missing entry counting as 0
residual(cap, u, v) == IF entryHas(cap[u], v) THEN entryGet(cap[u], v) ELSE 0

initialCapacity == buildCapacity([id \in Range(NodeIds) |-> <<>>], edges)

flowValues ==
  LET updates == SelectSeq(steps, LAMBDA step : step.type = "flow-update") IN
  [k \in 1..Len(updates) |-> updates[k].value]

flowRunning ==
  /\ gen.alg = "fordFulkerson" /\ gen.source # gen.sink
  /\ gen.pc \notin {"start", "threw"}

\* the residual capacities are never negative and every pair keeps its sum
\* (the state before the first resumption has no capacities yet; they are
\* looked at whenever a resumption has changed them)
ResidualsConserved ==
  flowRunning =>
    \A u, v \in Range(NodeIds) :
      /\ residual(gen.capacity, u, v) >= 0
      /\ residual(gen.capacity, u, v) + residual(gen.capacity, v, u)
           = residual(initialCapacity, u, v) + residual(initialCapacity, v, u)

\* the step emitted when findPath has returned a path
AugmentsAlongPath ==
  (flowRunning /\ gen'.pc = "flow-update") =>
    LET step == steps'[Len(steps')]
        path == step.path
        caps == [i \in 1..(Len(path) - 1) |-> residual(gen.capacity, path[i], path[i + 1])] IN
    /\ step.type = "flow-update"
    /\ Len(path) >= 2 /\ path[1] = gen.source /\ path[Len(path)] = gen.sink
    /\ \A i, j \in 1..Len(path) : path[i] = path[j] => i = j
    /\ \A i \in 1..Len(caps) : caps[i] > 0 /\ step.value <= caps[i]
    /\ \E i \in 1..Len(caps) : step.value = caps[i]
    /\ step.value > 0
    /\ step.totalWeight = SumSeq(flowValues) + step.value

\* C31: in a fordFulkerson run with source other than sink every residual
\* capacity stays >= 0 and residual(u,v) + residual(v,u) keeps its initial
\* value; the path of a flow-update step is a simple path from source to sink
\* over edges of positive residual capacity, its value is the least of them
\* and positive, and its totalWeight is the sum of all flow-update values.
C31_ResidualInvariants ==
  [][/\ gen'.capacity # gen.capacity => ResidualsConserved'
     /\ AugmentsAlongPath]_vars

\* a second augmentation, along a path of two edges
C31_Witness ==
  /\ gen.alg = "fordFulkerson" /\ gen.pc = "flow-update" /\ gen.source # gen.sink
  /\ Len(flowValues) = 2
  /\ Len(steps[Len(steps)].path) = 3

\* ---------------------------------------------------------------------
\* The loop of hierholzer
\* ---------------------------------------------------------------------
\* the vertices popped so far, in pop order
popOrder ==
  LET pops == SelectSeq(steps, LAMBDA step : step.type = "euler-path") IN
  [k \in 1..Len(pops) |-> pops[k].nodeId]

\* C32: in a hierholzer run every stored edge is marked used at most once, so
\* there are at most |E| edge-visit steps; every loop iteration emits
\* node-current and then one edge-visit (an edge consumed, its other end
\* pushed) or one euler-path (the top popped); a finished run has one more
\* euler-path step than edge-visit steps and its final path is the pop order
\* reversed.
C32_HierholzerLoop ==
  (gen.alg = "hierholzer" /\ gen.pc # "start") =>
    /\ Cardinality(IndexesOf("edge-visit")) = Cardinality({ i \in 1..Len(edges) : gen.used[i] })
    /\ Cardinality(IndexesOf("edge-visit")) <= Len(edges)
    /\ Len(gen.stack) = 1 + Cardinality(IndexesOf("edge-visit")) - Len(popOrder)
    /\ \A i \in 1..Len(steps) :
         CASE steps[i].type = "node-current" ->
                /\ i % 2 = 1
                /\ i < Len(steps) => steps[i + 1].type \in {"edge-visit", "euler-path"}
           [] steps[i].type = "edge-visit" ->
                /\ i % 2 = 0
                /\ steps[i - 1].type = "node-current"
                /\ steps[i - 1].nodeId = steps[i].edgeFrom
           [] steps[i].type = "euler-path" ->
                /\ i % 2 = 0
                /\ steps[i - 1].type = "node-current"
                /\ steps[i - 1].nodeId = steps[i].nodeId
                /\ steps[i].path = [k \in 1..Len(steps[i].path) |-> popOrder[k]]
           [] steps[i].type = "node-complete" -> i = Len(steps) /\ i % 2 = 1
           [] OTHER -> FALSE
    /\ gen.pc \in {"node-complete", "done"} =>
         LET path == steps[Len(steps)].path IN
         /\ steps[Len(steps)].type = "node-complete"
         /\ Len(popOrder) = Cardinality(IndexesOf("edge-visit")) + 1
         /\ Len(path) = Len(popOrder)
         /\ \A k \in 1..Len(path) : path[k] = popOrder[Len(path) + 1 - k]

\* a finished run that left an edge unused and whose path is not a palindrome
C32_Witness ==
  /\ gen.alg = "hierholzer" /\ gen.pc = "done"
  /\ \E i \in 1..Len(edges) : ~gen.used[i]
  /\ Len(popOrder) >= 3
  /\ popOrder[1] # popOrder[Len(popOrder)]

\* ---------------------------------------------------------------------
\* Playback over the materialized trace
\* ---------------------------------------------------------------------
\* the index is -1 on an empty trace and inside the trace otherwise
IndexValid ==
  IF app.algorithmSteps = <<>> THEN app.currentStepIndex = -1
  ELSE app.currentStepIndex \in 0..(Len(app.algorithmSteps) - 1)

atLastStep ==
  app.algorithmSteps # <<>> /\ app.currentStepIndex = Len(app.algorithmSteps) - 1

\* C33: whatever the order of timer ticks, step-forward, step-backward, play,
\* pause, reset and run, the current step index is -1 exactly when the trace
\* is empty and otherwise lies in 0..length-1; step-forward at the last step
\* and step-backward at step 0 leave it unchanged.
C33_IndexInRange ==
  [][/\ IndexValid /\ IndexValid'
     /\ (atLastStep /\ HandleStepForward) =>
          app'.currentStepIndex = app.currentStepIndex
     /\ (app.currentStepIndex = 0 /\ HandleStepBackward) =>
          app'.currentStepIndex = app.currentStepIndex]_vars

\* a tick was taken at the last step of a trace of several steps and the
\* effect has not yet cleared the interval
C33_Witness ==
  /\ atLastStep /\ Len(app.algorithmSteps) >= 3
  /\ ~app.isPlaying /\ app.playInterval # NULL

\* playback is off and no step is shown
cleared(a) == ~a.isPlaying /\ a.algorithmSteps = <<>> /\ a.currentStepIndex = -1

\* C34: a call of runAlgorithm first stops playback and discards the trace;
\* when it returns isPlaying is false and the trace is either empty with
\* index -1 (rejected input, empty graph, exception) or the complete step
\* list of the producer just run with index 0. No step of an earlier run is
\* left after a call that failed.
C34_RunReplacesTrace ==
  [][/\ gen' # Idle => app' = AppIdle
     /\ (gen # Idle /\ gen' = Idle) =>
          /\ ~app'.isPlaying
          /\ IF gen.pc = "done" /\ steps # <<>>
             THEN app'.algorithmSteps = steps /\ app'.currentStepIndex = 0
             ELSE cleared(app')
     /\ (gen = Idle /\ gen' = Idle /\ ~cleared(app')) =>
          ~RunSelected]_vars

\* a call that was rejected has discarded the trace that was shown
C34_Witness ==
  /\ gen = Idle /\ prev # <<>>
  /\ app = AppIdle

\* ---------------------------------------------------------------------------
\* Auto-play left alone
\* ---------------------------------------------------------------------------

\* a trace of bfs is materialized and stepped through by hand; once play is
\* pressed the user does nothing until playback has stopped
InitAutoPlay ==
  /\ directed \in BOOLEAN
  /\ nodes = SmallNodes
  /\ edges \in EdgeSubLists(RunPairs, {1}, directed, MaxRunEdges)
  /\ ret = Returned("addEdge", VOID, 0)
  /\ gen = Idle
  /\ steps = <<>>
  /\ prev = <<>>
  /\ app = AppIdle

NextAutoPlay ==
  \/ ~app.isPlaying /\ \E startNode \in TypedIds : RunAlgorithm("bfs", startNode, <<>>)
  \/ ~app.isPlaying /\ app.algorithmSteps # <<>> /\ HandlePlay
  \/ ~app.isPlaying /\ app.algorithmSteps # <<>> /\ HandleStepForward
  \/ ~app.isPlaying /\ HandleStepBackward
  \/ BfsStart \/ BfsNeighbors \/ BfsNextNode
  \/ Collect
  \/ Tick \/ FlushEffect

\* the interval set by the effect keeps firing
SpecAutoPlay == InitAutoPlay /\ [][NextAutoPlay]_vars /\ WF_vars(Tick)

autoPlaying == app.isPlaying /\ app.algorithmSteps # <<>>

\* C35: with auto-play on over a non-empty trace and no user action, every
\* tick before the last step advances the index by exactly one and keeps
\* playing, the tick at the last step turns isPlaying off and leaves the
\* index, the index never passes the last step, and under fair ticks playback
\* reaches the last step and stops there.
C35_AutoPlayRunsToEnd ==
  /\ [][(autoPlaying /\ app' # app) =>
          /\ app'.algorithmSteps = app.algorithmSteps
          /\ app'.currentStepIndex <= Len(app.algorithmSteps) - 1
          /\ IF atLastStep
             THEN ~app'.isPlaying /\ app'.currentStepIndex = app.currentStepIndex
             ELSE app'.isPlaying /\ app'.currentStepIndex = app.currentStepIndex + 1]_vars
  /\ autoPlaying ~> (atLastStep /\ ~app.isPlaying)

\* play was pressed two steps before the end and the ticks have brought the
\* index to the last step, where the next tick has stopped playback
C35_Witness ==
  /\ atLastStep /\ ~app.isPlaying /\ app.playInterval # NULL
  /\ Len(app.algorithmSteps) >= 4


\* ---------------------------------------------------------------------------
\* checkBipartite on directed graphs
\* ---------------------------------------------------------------------------

\* C36: on a directed graph whose edges, read as unordered pairs, contain no
\* odd cycle, checkBipartite never emits the partition step that reports a
\* conflict between two vertices of the same color.
C36_DirectedVerdict ==
  (gen.alg = "checkBipartite" /\ directed /\ ~HasOddCycle) =>
    \A i \in 1..Len(steps) :
      ~(steps[i].type = "partition" /\ steps[i].message = "not bipartite")


\* ---------------------------------------------------------------------------
\* Nesting of the dfs trace
\* ---------------------------------------------------------------------------

\* step k is the node-complete of the visit that step i opened
closes(i, k) ==
  /\ steps[i].type = "node-current" /\ steps[k].type = "node-complete"
  /\ steps[i].nodeId = steps[k].nodeId
  /\ i < k

\* C39: in a dfs trace every edge-visit (u, v) is followed at once by
\* node-current(v); every node-complete(u) closes an earlier node-current(u)
\* such that every node-current in between has its node-complete in between
\* too; and the last step of a finished trace is node-complete(start).
C39_DfsNesting ==
  gen.alg = "dfs" =>
    /\ \A i \in IndexesOf("edge-visit") :
         i < Len(steps) =>
           steps[i + 1].type = "node-current" /\ steps[i + 1].nodeId = steps[i].edgeTo
    /\ \A k \in IndexesOf("node-complete") :
         \E i \in 1..(k - 1) :
           /\ closes(i, k)
           /\ \A j \in (i + 1)..(k - 1) :
                steps[j].type = "node-current" =>
                  \E l \in (j + 1)..(k - 1) : closes(j, l)
    /\ gen.pc = "done" =>
         /\ steps # <<>>
         /\ Last(steps).type = "node-complete" /\ Last(steps).nodeId = gen.start

\* a finished dfs that went two calls deep: the last three steps complete the
\* innermost vertex, its caller and the start vertex
C39_Witness ==
  /\ gen.alg = "dfs" /\ gen.pc = "done" /\ Len(steps) >= 8
  /\ \A k \in (Len(steps) - 2)..Len(steps) : steps[k].type = "node-complete"
  /\ steps[Len(steps) - 2].nodeId # steps[Len(steps) - 1].nodeId


\* ---------------------------------------------------------------------------
\* Augmenting paths of fordFulkerson are shortest paths
\* ---------------------------------------------------------------------------

\* the number of edges of a shortest path from the vertices of frontier (d
\* edges away from the source) to sink over pairs of positive residual
\* capacity, -1 when there is none
RECURSIVE hopsFrom(_, _, _, _, _)
hopsFrom(cap, frontier, seen, sink, d) ==
  IF sink \in frontier THEN d
  ELSE LET next == { v \in Range(NodeIds) \ seen :
                       \E u \in frontier : residual(cap, u, v) > 0 } IN
       IF next = {} THEN -1
       ELSE hopsFrom(cap, next, seen \cup next, sink, d + 1)

updatePaths ==
  LET updates == SelectSeq(steps, LAMBDA step : step.type = "flow-update") IN
  [k \in 1..Len(updates) |-> updates[k].path]

\* C40: the path of every flow-update step has as few edges as any path from
\* source to sink over positive residual capacities, taken before the update
\* was applied, and no earlier flow-update path of the run has more edges.
C40_ShortestAugmentingPaths ==
  [][(flowRunning /\ gen'.pc = "flow-update") =>
       LET path == steps'[Len(steps')].path IN
       /\ Len(path) - 1 =
            hopsFrom(gen.capacity, {gen.source}, {gen.source}, gen.sink, 0)
       /\ \A k \in 1..Len(updatePaths) : Len(updatePaths[k]) <= Len(path)]_vars

\* a run whose second augmenting path is longer than its first
C40_Witness ==
  /\ gen.alg = "fordFulkerson" /\ gen.pc = "flow-update" /\ gen.source # gen.sink
  /\ Len(updatePaths) = 2
  /\ Len(updatePaths[1]) < Len(updatePaths[2])


\* ---------------------------------------------------------------------
\* Properties of the Graph class
\* ---------------------------------------------------------------------
\* An identifier in normal form: no leading or trailing blank, no lower-case letter.
IsNormalForm(s) ==
  /\ s = <<>> \/ (s[1] # " " /\ s[Len(s)] # " ")
  /\ \A i \in 1..Len(s) : s[i] \notin {"a", "b", "c", "d"}

EdgeEndpointsExist ==
  \A i \in 1..Len(edges) :
    /\ \E k \in 1..Len(nodes) : nodes[k].id = edges[i].from
    /\ \E k \in 1..Len(nodes) : nodes[k].id = edges[i].to

\* C8: after any sequence of Graph calls both endpoints of every stored edge
\* are identifiers of vertices in the graph, and the state produced by
\* deleteNode(v) holds no edge whose from or to is v.
C8_CascadeInvariant ==
  /\ [](EdgeEndpointsExist)
  /\ [][\A id \in RawIds :
          (ret'.op = "deleteNode" /\ DeleteNode(id)) =>
            \A i \in 1..Len(edges') :
              edges'[i].from # toUpperCase(trim(id)) /\ edges'[i].to # toUpperCase(trim(id))]_vars

\* deleteNode has just removed edges of the deleted vertex and other edges remain
C8_Witness ==
  ret.op = "deleteNode" /\ ret.touched > 0 /\ Len(edges) > 0

\* C9: addNode on an identifier whose normal form is already a vertex returns
\* null and changes neither the vertices nor the edges; at all times vertex
\* identifiers are pairwise distinct and each is in normal form.
C9_AddNodeDuplicate ==
  /\ [](/\ \A i, j \in 1..Len(nodes) : nodes[i].id = nodes[j].id => i = j
        /\ \A i \in 1..Len(nodes) : IsNormalForm(nodes[i].id))
  /\ [][\A id \in AddIds :
          (/\ ret'.op = "addNode"
           /\ \E k \in 1..Len(nodes) : nodes[k].id = toUpperCase(trim(id))
           /\ AddNode(id)) =>
            (ret'.val = NULL /\ nodes' = nodes /\ edges' = edges)]_vars

\* addNode has just refused a duplicate while the graph holds edges
C9_Witness ==
  ret.op = "addNode" /\ ret.val = NULL /\ Len(nodes) > 0 /\ Len(edges) > 0

NoDuplicatePair ==
  \A i, j \in 1..Len(edges) :
    (edges[i].from = edges[j].from /\ edges[i].to = edges[j].to) => i = j

\* C10: at all times there is at most one stored edge per ordered pair, and
\* addEdge(from, to, w) on a pair that already has an edge only sets that
\* edge's weight to w: same length, same endpoints at every position, every
\* other weight unchanged.
C10_OneEdgePerPair ==
  /\ [](NoDuplicatePair)
  /\ [][\A f \in AddIds, t \in AddIds :
          (/\ ret'.op = "addEdge"
           /\ \E k \in 1..Len(edges) :
                 edges[k].from = toUpperCase(trim(f)) /\ edges[k].to = toUpperCase(trim(t))) =>
            \A w \in GraphWeights :
              AddEdge(f, t, w) =>
                /\ Len(edges') = Len(edges)
                /\ \A i \in 1..Len(edges) :
                     /\ edges'[i].from = edges[i].from
                     /\ edges'[i].to = edges[i].to
                     /\ edges'[i].directed = edges[i].directed
                     /\ edges'[i].weight =
                          IF edges[i].from = toUpperCase(trim(f)) /\ edges[i].to = toUpperCase(trim(t))
                            THEN w ELSE edges[i].weight]_vars

\* addEdge has just rewritten the weight of the first of two stored edges
C10_Witness ==
  ret.op = "addEdge" /\ ret.touched = 1 /\ Len(edges) = 2 /\ edges[1].weight # edges[2].weight

\* C11: renameNode returns false and changes nothing whenever the normalized
\* new identifier is already a vertex, and returns true only when a vertex
\* was renamed (the old identifier was a vertex and the new one is afterwards).
C11_RenameCollision ==
  [][\A o \in RawIds, n \in RawIds :
       (ret'.op = "renameNode" /\ RenameNode(o, n)) =>
         /\ hasNode(nodes, normalizeId(n)) =>
              (ret'.val = FALSE /\ nodes' = nodes /\ edges' = edges)
         /\ ret'.val = TRUE =>
              (hasNode(nodes, normalizeId(o)) /\ hasNode(nodes', normalizeId(n)))]_vars

\* position of the vertex id in getNodes()
position(ns, id) == CHOOSE i \in 1..Len(ns) : ns[i].id = id

\* C12: two vertices that both stay in the graph keep their relative order in
\* getNodes() across every Graph method call; a renamed vertex stays the same
\* vertex under its new identifier.
C12_InsertionOrder ==
  [][LET renamed == /\ ret'.op = "renameNode"
                    /\ \E y \in Range(IdsOf(nodes')) : ~hasNode(nodes, y)
         image(x) == IF hasNode(nodes', x) THEN x
                     ELSE IF renamed
                     THEN CHOOSE y \in Range(IdsOf(nodes')) : ~hasNode(nodes, y)
                     ELSE NoId
     IN \A u, v \in Range(NodeIds) :
          (image(u) # NoId /\ image(v) # NoId /\ position(nodes, u) < position(nodes, v))
            => position(nodes', image(u)) < position(nodes', image(v))]_vars

Occurrences(seq, x) == Cardinality({ i \in 1..Len(seq) : seq[i] = x })

StoredBetween(u, v) ==
  { i \in 1..Len(edges) : \/ edges[i].from = u /\ edges[i].to = v
                          \/ edges[i].from = v /\ edges[i].to = u }

\* C13: in an undirected graph v is listed by getNeighbors(u) with weight w as
\* often as u is listed by getNeighbors(v) with weight w, and a pair joined by
\* one stored edge is listed once on either side; in a directed graph
\* getNeighbors(u) lists v only for a stored edge from u to v.
C13_NeighborSymmetry ==
  \A u, v \in Range(NodeIds) :
    /\ ~directed =>
         /\ \A w \in GraphWeights :
              Occurrences(getNeighbors(u), [node |-> v, weight |-> w])
                = Occurrences(getNeighbors(v), [node |-> u, weight |-> w])
         /\ (u # v /\ Cardinality(StoredBetween(u, v)) = 1) =>
              /\ Cardinality({ i \in 1..Len(getNeighbors(u)) : getNeighbors(u)[i].node = v }) = 1
              /\ Cardinality({ i \in 1..Len(getNeighbors(v)) : getNeighbors(v)[i].node = u }) = 1
    /\ directed =>
         \A w \in GraphWeights :
           Occurrences(getNeighbors(u), [node |-> v, weight |-> w])
             = Cardinality({ i \in 1..Len(edges) :
                 edges[i].from = u /\ edges[i].to = v /\ edges[i].weight = w })

\* an undirected graph whose only edge is stored from one vertex to another,
\* the second listing the first as its neighbor
C13_Witness ==
  /\ ~directed /\ Len(edges) = 1 /\ edges[1].from # edges[1].to
  /\ Len(getNeighbors(edges[1].to)) = 1
  /\ getNeighbors(edges[1].to)[1].node = edges[1].from

\* the vertices getNeighbors reports for id after the step
neighborsAfter(id) ==
  LET listed == neighborsIn(edges', directed', normalizeId(id)) IN
  { listed[k].node : k \in 1..Len(listed) }

\* C37: once deleteEdge(u, v) has returned, getNeighbors(u) does not list v,
\* and on an undirected graph getNeighbors(v) does not list u either.
C37_DeletedEdgeGone ==
  [][\A u \in AddIds, v \in AddIds :
       DeleteEdge(u, v) =>
         /\ normalizeId(v) \notin neighborsAfter(u)
         /\ ~directed => normalizeId(u) \notin neighborsAfter(v)]_vars

\* C38: whatever operations built the graph, getNeighbors(u) lists no vertex
\* twice, for every vertex u, on directed as on undirected graphs.
C38_NeighborsOnce ==
  \A n \in 1..Len(nodes) :
    LET listed == getNeighbors(nodes[n].id) IN
    \A i \in 1..Len(listed), j \in 1..Len(listed) :
      listed[i].node = listed[j].node => i = j

====
